---- MODULE Spec2Model ----
(***************************************************************************)
(* Tenant quota / plan enforcement of the clinic backend:                  *)
(*   backend/src/utils/serverHelpers.ts  (DEFAULT_PLANS, checkLimits,      *)
(*                                        trackStorage)                    *)
(*   backend/src/server.ts, backend/src/routes.ts  (request handlers)      *)
(* The database is a set of rows per table.  A request is a process that   *)
(* advances from one await to the next; every await is one step.           *)
(***************************************************************************)
EXTENDS Integers, FiniteSets, Sequences, TLC

VARIABLES
    tenants,    \* Tenant rows: [id, status, plan, storageUsed]
    plans,      \* Plan rows: [id, limits]; limits is the parsed JSON object
    users,      \* User rows: [email, tenantId]; email is unique
    owners,     \* Owner rows: [id, tenantId]
    pets,       \* Pet rows: [id, tenantId]
    nextId,     \* source of generateId
    req,        \* per request: the call it runs and where it stands
    logs,       \* Log rows: [tenantId, user, action, type, by]
    pending,    \* log writes handed to the database and not awaited by anyone
    console,    \* console.error lines: [by, message]
    sales,      \* SaleRecord rows: [id, tenantId, items]
    inventory,  \* InventoryItem rows: [id, tenantId, stock]
    env,        \* process.env: [NODE_ENV, FLUTTERWAVE_SECRET_KEY]
    expenses,   \* Expense rows: [id, tenantId]
    issued,     \* the tokens that the logins have signed (valid for 7 days)
    signing,    \* the tokens of the logins that have read their row and await
                \* bcrypt.compare
    tenants0,   \* history: the Tenant rows of the initial state
    ledger      \* history: trackStorage calls made, and per tenant the sum of
                \* the mbUsed of the calls whose update went through

vars == <<tenants, plans, users, owners, pets, nextId, req,
          logs, pending, console, sales, inventory, env, expenses, issued, signing,
          tenants0, ledger>>

\* what the quota checker and the user / owner handlers never touch
rest == <<logs, pending, console, sales, inventory, env, expenses, issued, signing,
          tenants0, ledger>>

db == <<tenants, plans, users, owners, pets>>

----------------------------------------------------------------------------
(* Bounds *)

\* incrementAmount ranges over 0..MaxIncrement
MaxIncrement == 2
\* a tenant starts with 0..MaxCount users and 0..MaxCount owners
MaxCount == 3
\* maxUsers / maxClients of a plan outside the catalog range over -1..MaxLimit
MaxLimit == 2

ReqIds == {"r1", "r2"}

\* e-mail addresses are numbered; 0 is the seeded super admin's address
AdminEmail == 0
Emails == 1..(MaxCount + 2 * MaxIncrement)

----------------------------------------------------------------------------
(* Plan catalog *)

\* maxStorageGB is a float in the source (0.5 for Trial): kept as a fraction
GB(n, d) == [num |-> n, den |-> d]

\* serverHelpers.ts:5-58.  limits is stored as JSON.stringify(object) and read
\* back with JSON.parse: the object with the same keys and numbers.
DEFAULT_PLANS ==
    << [id |-> "Trial",
        limits |-> [maxUsers |-> 1, maxClients |-> 10, maxStorageGB |-> GB(1, 2)]],
       [id |-> "Starter",
        limits |-> [maxUsers |-> 2, maxClients |-> 50, maxStorageGB |-> GB(2, 1)]],
       [id |-> "Standard",
        limits |-> [maxUsers |-> 7, maxClients |-> -1, maxStorageGB |-> GB(10, 1)]],
       [id |-> "Premium",
        limits |-> [maxUsers |-> -1, maxClients |-> -1, maxStorageGB |-> GB(100, 1)]] >>

CatalogIds == {DEFAULT_PLANS[i].id : i \in 1..Len(DEFAULT_PLANS)}

\* server.ts:84-90: the rows the seeding loop leaves for the catalog
SeededPlans == {DEFAULT_PLANS[i] : i \in 1..Len(DEFAULT_PLANS)}

\* server.ts:93-103: the system tenant; its plan id 'Enterprise' is not in the catalog
\* (status is not set by the upsert: the column default, Active)
SystemTenant ==
    [id |-> "system", status |-> "Active", plan |-> "Enterprise", storageUsed |-> 0]

\* server.ts:105-123
SuperAdmin == [email |-> AdminEmail, tenantId |-> "system"]

----------------------------------------------------------------------------
(* Queries *)

\* variant: an id that matches no row falls back to the system tenant
findTenant_fallback(tenantId) ==
    IF \E t \in tenants : t.id = tenantId
    THEN {t \in tenants : t.id = tenantId}
    ELSE {t \in tenants : t.id = "system"}

\* prisma.tenant.findUnique({ where: { id } }): the matching rows (none or one)
findTenant(tenantId) == {t \in tenants : t.id = tenantId}

\* _count: { select: { users, pets, owners } } of the tenant
countOf(table, tenantId) == Cardinality({x \in table : x.tenantId = tenantId})

\* the tenant record checkLimits works on (serverHelpers.ts:77-84)
withCounts(t) ==
    [id |-> t.id, status |-> t.status, plan |-> t.plan, storageUsed |-> t.storageUsed,
     count |-> [users |-> countOf(users, t.id),
                pets |-> countOf(pets, t.id),
                owners |-> countOf(owners, t.id)]]

findTenantWithCounts(tenantId) == {withCounts(t) : t \in findTenant(tenantId)}

\* prisma.plan.findUnique({ where: { id } })
findPlan(planId) == {p \in plans : p.id = planId}

----------------------------------------------------------------------------
(* checkLimits, serverHelpers.ts:71-124 *)

Return(tenant) == [kind |-> "return", tenant |-> tenant]
NotFound == [kind |-> "throw", error |-> "NotFound"]
AccountRestricted == [kind |-> "throw", error |-> "AccountRestricted"]
StorageQuotaExceeded(limits) ==
    [kind |-> "throw", error |-> "QuotaExceeded", resource |-> "storage",
     limitGB |-> limits.maxStorageGB]
UserLimitReached(limits) ==
    [kind |-> "throw", error |-> "QuotaExceeded", resource |-> "users",
     limit |-> limits.maxUsers]
ClientLimitReached(limits) ==
    [kind |-> "throw", error |-> "QuotaExceeded", resource |-> "clients",
     limit |-> limits.maxClients]
Continue == [kind |-> "continue"]

Has(limits, key) == key \in DOMAIN limits

\* (limits.maxStorageGB || 1) * 1024: a missing or zero maxStorageGB counts as 1
maxStorageMB(limits) ==
    IF Has(limits, "maxStorageGB") /\ limits.maxStorageGB.num # 0
    THEN (limits.maxStorageGB.num * 1024) \div limits.maxStorageGB.den
    ELSE 1024

\* variant: the gate tests 'Suspended' alone
checkLimitsGate_suspendedOnly(found) ==
    IF found = {} THEN NotFound
    ELSE LET tenant == CHOOSE t \in found : TRUE IN
         IF tenant.status = "Suspended" THEN AccountRestricted ELSE Continue

\* lines 86-91: the tenant must exist and must not be Restricted or Suspended
checkLimitsGate(found) ==
    IF found = {} THEN NotFound
    ELSE LET tenant == CHOOSE t \in found : TRUE IN
         IF tenant.status = "Restricted" \/ tenant.status = "Suspended"
         THEN AccountRestricted
         ELSE Continue

\* variant: the increment is left out of the sum
storageExceeded_noIncrement(tenant, limits, incrementAmount) ==
    tenant.storageUsed > maxStorageMB(limits)

\* line 102
storageExceeded(tenant, limits, incrementAmount) ==
    tenant.storageUsed + incrementAmount > maxStorageMB(limits)

\* variant: >= in place of >
usersExceeded_atLimit(tenant, limits, incrementAmount) ==
    /\ Has(limits, "maxUsers")
    /\ limits.maxUsers # -1
    /\ tenant.count.users + incrementAmount >= limits.maxUsers

\* variant: the -1 sentinel is not tested
usersExceeded_noSentinel(tenant, limits, incrementAmount) ==
    /\ Has(limits, "maxUsers")
    /\ tenant.count.users + incrementAmount > limits.maxUsers

\* lines 108-110; a comparison with an undefined maxUsers is false
usersExceeded(tenant, limits, incrementAmount) ==
    /\ Has(limits, "maxUsers")
    /\ limits.maxUsers # -1
    /\ tenant.count.users + incrementAmount > limits.maxUsers

\* variant: the user count in place of the owner count
clientsExceeded_userCount(tenant, limits, incrementAmount) ==
    /\ Has(limits, "maxClients")
    /\ limits.maxClients # -1
    /\ tenant.count.users + incrementAmount > limits.maxClients

\* lines 116-118
clientsExceeded(tenant, limits, incrementAmount) ==
    /\ Has(limits, "maxClients")
    /\ limits.maxClients # -1
    /\ tenant.count.owners + incrementAmount > limits.maxClients

\* variant: a missing plan is an error (fail-closed)
checkLimitsQuota_failClosed(tenant, planFound, resourceType, incrementAmount) ==
    IF planFound = {} THEN NotFound
    ELSE LET limits == (CHOOSE p \in planFound : TRUE).limits IN
         IF resourceType = "storage" /\ storageExceeded(tenant, limits, incrementAmount)
         THEN StorageQuotaExceeded(limits)
         ELSE IF resourceType = "users" /\ usersExceeded(tenant, limits, incrementAmount)
         THEN UserLimitReached(limits)
         ELSE IF resourceType = "clients" /\ clientsExceeded(tenant, limits, incrementAmount)
         THEN ClientLimitReached(limits)
         ELSE Return(tenant)

\* lines 94-123: plan resolution and the check of the one resource type
checkLimitsQuota(tenant, planFound, resourceType, incrementAmount) ==
    IF planFound = {} THEN Return(tenant)
    ELSE LET limits == (CHOOSE p \in planFound : TRUE).limits IN
         IF resourceType = "storage" /\ storageExceeded(tenant, limits, incrementAmount)
         THEN StorageQuotaExceeded(limits)
         ELSE IF resourceType = "users" /\ usersExceeded(tenant, limits, incrementAmount)
         THEN UserLimitReached(limits)
         ELSE IF resourceType = "clients" /\ clientsExceeded(tenant, limits, incrementAmount)
         THEN ClientLimitReached(limits)
         ELSE Return(tenant)

\* the whole function on the rows its two queries return
checkLimits(found, planFound, resourceType, incrementAmount) ==
    IF checkLimitsGate(found).kind = "throw" THEN checkLimitsGate(found)
    ELSE checkLimitsQuota(CHOOSE t \in found : TRUE, planFound,
                          resourceType, incrementAmount)

----------------------------------------------------------------------------
(* Requests *)

ResourceTypes == {"storage", "users", "clients"}
Increments == 0..MaxIncrement

NoResult == [kind |-> "none"]

IdleReq ==
    [op |-> "idle", pc |-> "idle", tenantId |-> "none", resourceType |-> "none",
     incrementAmount |-> 0, tenant |-> {}, planRead |-> FALSE,
     created |-> "none", result |-> NoResult,
     mbUsed |-> 0, dbFailed |-> FALSE, user |-> -1, entity |-> 0,
     transactionId |-> [type |-> "undefined"], gatewayCalls |-> 0,
     response |-> [kind |-> "none"], plan |-> "none", paymentVerified |-> FALSE,
     runs |-> 0, token |-> [sig |-> "none"], body |-> [name |-> "none"]]

\* tenant ids a caller may pass: the existing ones and one that matches no row
CallerTenantIds == {t.id : t \in tenants} \cup {"nobody"}

\* checkLimits up to its second await: the tenant query and the two gates
CheckLimitsTenant(r) ==
    /\ req[r].pc = "idle"
    /\ \E tenantId \in CallerTenantIds, resourceType \in ResourceTypes,
          incrementAmount \in Increments :
          LET found == findTenantWithCounts(tenantId)
              gate == checkLimitsGate(found)
          IN req' = [req EXCEPT ![r] =
                  [@ EXCEPT !.op = "checkLimits",
                            !.tenantId = tenantId,
                            !.resourceType = resourceType,
                            !.incrementAmount = incrementAmount,
                            !.tenant = found,
                            !.pc = IF gate.kind = "throw" THEN "threw" ELSE "plan",
                            !.result = IF gate.kind = "throw" THEN gate ELSE NoResult]]
    /\ UNCHANGED <<tenants, plans, users, owners, pets, nextId>>
    /\ UNCHANGED rest

\* variant: a storage check that passes also books the increment on the row
CheckLimitsPlan_booking(r) ==
    /\ req[r].pc = "plan"
    /\ LET tenant == CHOOSE t \in req[r].tenant : TRUE
           result == checkLimits(req[r].tenant, findPlan(tenant.plan),
                                 req[r].resourceType, req[r].incrementAmount)
       IN /\ req' = [req EXCEPT ![r] =
                  [@ EXCEPT !.planRead = TRUE,
                            !.result = result,
                            !.pc = IF result.kind = "return" THEN "returned" ELSE "threw"]]
          /\ tenants' = IF result.kind = "return" /\ req[r].resourceType = "storage"
                        THEN {IF t.id = tenant.id
                              THEN [t EXCEPT !.storageUsed = @ + req[r].incrementAmount]
                              ELSE t : t \in tenants}
                        ELSE tenants
    /\ UNCHANGED <<plans, users, owners, pets, nextId>>
    /\ UNCHANGED rest

\* checkLimits from the plan query to its return or throw
CheckLimitsPlan(r) ==
    /\ req[r].pc = "plan"
    /\ LET tenant == CHOOSE t \in req[r].tenant : TRUE
           result == checkLimits(req[r].tenant, findPlan(tenant.plan),
                                 req[r].resourceType, req[r].incrementAmount)
       IN req' = [req EXCEPT ![r] =
               [@ EXCEPT !.planRead = TRUE,
                         !.result = result,
                         !.pc = IF result.kind = "return" THEN "returned" ELSE "threw"]]
    /\ UNCHANGED <<tenants, plans, users, owners, pets, nextId>>
    /\ UNCHANGED rest

----------------------------------------------------------------------------
(* Initial database *)

TenantRow(status, plan, storageUsed) ==
    [id |-> "t1", status |-> status, plan |-> plan, storageUsed |-> storageUsed]

UsersOf(tenantId, n) == {[email |-> e, tenantId |-> tenantId] : e \in 1..n}
RowsOf(tenantId, n) == {[id |-> i, tenantId |-> tenantId] : i \in 1..n}

Statuses == {"Active", "Restricted", "Suspended"}

\* limits of a plan row edited outside the catalog
CustomLimits ==
    {[maxUsers |-> u, maxClients |-> c, maxStorageGB |-> g] :
        u \in -1..MaxLimit, c \in -1..MaxLimit, g \in {GB(0, 1), GB(1, 2), GB(1, 1)}}

\* storage already used, in MB, on both sides of the catalog's thresholds
StorageUsedValues == {0, 511, 1023, 2047}

\* stock on the shelves: two items of the clinic, one of another tenant
InitialInventory ==
    {[id |-> 1, tenantId |-> "t1", stock |-> 5],
     [id |-> 2, tenantId |-> "t1", stock |-> 5],
     [id |-> 3, tenantId |-> "system", stock |-> 5]}

\* a production process with the gateway credential configured
ProductionEnv == [NODE_ENV |-> "production", FLUTTERWAVE_SECRET_KEY |-> "FLWSECK"]

\* a request without a token, and one whose token jwt.verify rejects
NoToken == [sig |-> "none"]
ForgedToken ==
    [sig |-> "forged", issuedBy |-> "nobody",
     payload |-> [userId |-> AdminEmail, tenantId |-> "system"]]

\* jwt.sign(payload, JWT_SECRET) of the four logins; issuedBy is not part of
\* the token, it records the login for the properties
StaffTokenServer(u) ==
    [sig |-> "valid", issuedBy |-> "staff login",
     payload |-> [userId |-> u.email, tenantId |-> u.tenantId, roles |-> "Veterinarian"]]
PortalTokenServer(o) ==
    [sig |-> "valid", issuedBy |-> "portal login",
     payload |-> [userId |-> o.id, tenantId |-> o.tenantId, type |-> "CLIENT"]]
StaffTokenRoutes(u) ==
    [sig |-> "valid", issuedBy |-> "staff login",
     payload |-> [id |-> u.email, tenantId |-> u.tenantId, role |-> "Admin"]]
PortalTokenRoutes(o) ==
    [sig |-> "valid", issuedBy |-> "portal login",
     payload |-> [id |-> o.id, tenantId |-> o.tenantId, role |-> "CLIENT"]]

\* server.ts:232: the portal login goes on to sign a token only for an owner
\* with isPortalActive and a passwordHash; routes.ts:327-337 signs for every
\* owner found by e-mail
PortalLoginOpen(o) ==
    /\ Has(o, "isPortalActive") /\ o.isPortalActive
    /\ Has(o, "passwordHash") /\ o.passwordHash # "null"

\* the tokens the four logins sign for the users us and the owners os
SignedFor(us, os) ==
    {StaffTokenServer(u) : u \in us} \cup {StaffTokenRoutes(u) : u \in us}
        \cup {PortalTokenServer(o) : o \in {x \in os : PortalLoginOpen(x)}}
        \cup {PortalTokenRoutes(o) : o \in os}

\* no log row, no sale, nothing in flight, nothing printed
InitRest ==
    /\ logs = {}
    /\ pending = {}
    /\ console = {}
    /\ sales = {}
    /\ inventory = InitialInventory
    /\ expenses = {}
    /\ signing = {}
    /\ tenants0 = tenants
    /\ ledger = [calls |-> 0, sum |-> [id \in {t.id : t \in tenants} |-> 0]]

\* the seeded rows plus one clinic "t1" and, when it is on the plan "Custom",
\* that plan's row
InitDB(statuses, planIds, customLimits, storageValues, userCounts, ownerCounts, petCounts) ==
    /\ \E status \in statuses, plan \in planIds, storageUsed \in storageValues :
          tenants = {SystemTenant, TenantRow(status, plan, storageUsed)}
    /\ \/ /\ \E t \in tenants : t.plan = "Custom"
          /\ \E limits \in customLimits :
                plans = SeededPlans \cup {[id |-> "Custom", limits |-> limits]}
       \/ /\ \A t \in tenants : t.plan # "Custom"
          /\ plans = SeededPlans
    /\ \E n \in userCounts : users = {SuperAdmin} \cup UsersOf("t1", n)
    /\ \E n \in ownerCounts : owners = RowsOf("t1", n)
    /\ \E n \in petCounts : pets = RowsOf("t1", n)
    /\ nextId = MaxCount + 1
    /\ req = [r \in ReqIds |-> IdleReq]
    /\ InitRest
    /\ issued = SignedFor(users, owners)
    /\ env = ProductionEnv

----------------------------------------------------------------------------
(* SpecCheck: one call of checkLimits on any database of the bounded family *)

InitCheck ==
    InitDB(Statuses, CatalogIds \cup {"Custom", "Enterprise"}, CustomLimits,
           StorageUsedValues, 0..MaxCount, 0..MaxCount, 0..1)

NextCheck ==
    \/ CheckLimitsTenant("r1")
    \/ CheckLimitsPlan("r1")

SpecCheck == InitCheck /\ [][NextCheck]_vars

----------------------------------------------------------------------------
(* Request handlers that create users and owners *)

\* staff login signs tenantId: user.tenantId into the token (server.ts:203,
\* routes.ts:50); req.user.tenantId is the tenant of some user row
TokenTenantIds == {u.tenantId : u \in users}

\* POST /users, server.ts:332-348: the row is created at once; a taken e-mail
\* address makes the create throw, which is answered with 400
PostUsers(r) ==
    /\ req[r].pc = "idle"
    /\ \E tenantId \in TokenTenantIds, email \in Emails \cup {AdminEmail} :
          IF \E u \in users : u.email = email
          THEN /\ req' = [req EXCEPT ![r] =
                        [@ EXCEPT !.op = "POST /users", !.tenantId = tenantId,
                                  !.pc = "replied400"]]
               /\ users' = users
          ELSE /\ req' = [req EXCEPT ![r] =
                        [@ EXCEPT !.op = "POST /users", !.tenantId = tenantId,
                                  !.created = "users", !.pc = "replied200"]]
               /\ users' = users \cup {[email |-> email, tenantId |-> tenantId]}
    /\ UNCHANGED <<tenants, plans, owners, pets, nextId>>
    /\ UNCHANGED rest

\* POST /owners, server.ts:414-426
\* generateId('CL') is taken as an id no owner row holds yet
PostOwnersServer(r) ==
    /\ req[r].pc = "idle"
    /\ \E tenantId \in TokenTenantIds :
          /\ req' = [req EXCEPT ![r] =
                   [@ EXCEPT !.op = "POST /owners (server.ts)", !.tenantId = tenantId,
                             !.created = "clients", !.pc = "replied200"]]
          /\ owners' = owners \cup {[id |-> nextId, tenantId |-> tenantId]}
    /\ nextId' = nextId + 1
    /\ UNCHANGED <<tenants, plans, users, pets>>
    /\ UNCHANGED rest

\* POST /owners, routes.ts:184-189: { ...req.body, tenantId, id: generateId('CL') }
PostOwnersRoutes(r) ==
    /\ req[r].pc = "idle"
    /\ \E tenantId \in TokenTenantIds :
          /\ req' = [req EXCEPT ![r] =
                   [@ EXCEPT !.op = "POST /owners (routes.ts)", !.tenantId = tenantId,
                             !.created = "clients", !.pc = "replied200"]]
          /\ owners' = owners \cup {[id |-> nextId, tenantId |-> tenantId]}
    /\ nextId' = nextId + 1
    /\ UNCHANGED <<tenants, plans, users, pets>>
    /\ UNCHANGED rest

----------------------------------------------------------------------------
(* trackStorage, serverHelpers.ts:128-137 *)

\* variant: storageUsed: mbUsed in place of storageUsed: { increment: mbUsed }
trackStorage_set(tenantId, mbUsed) ==
    {IF t.id = tenantId THEN [t EXCEPT !.storageUsed = mbUsed] ELSE t : t \in tenants}

\* prisma.tenant.update with storageUsed: { increment: mbUsed }: one atomic
\* update of the row; with no such row the update throws and the catch logs it
trackStorage(tenantId, mbUsed) ==
    {IF t.id = tenantId THEN [t EXCEPT !.storageUsed = @ + mbUsed] ELSE t : t \in tenants}

\* mbUsed is a number of either sign (a negative one records a reclaim)
MbUsedValues == (0 - MaxIncrement)..MaxIncrement

\* the calls one run makes
MaxCalls == 3

\* line 130, await prisma.tenant.update: the update throws when no row has the
\* id or when the database cannot be reached, and then changes nothing
tenantUpdate(tenantId, mbUsed, dbUp) ==
    IF dbUp /\ findTenant(tenantId) # {}
    THEN [threw |-> FALSE, tenants |-> trackStorage(tenantId, mbUsed)]
    ELSE [threw |-> TRUE, tenants |-> tenants]

\* variant: the update is not wrapped in try/catch
trackStorageSettle_rethrow(r, update) ==
    IF update.threw
    THEN [result |-> [kind |-> "throw", error |-> "update failed"], console |-> {}]
    ELSE [result |-> [kind |-> "return", value |-> "undefined"], console |-> {}]

\* lines 129-136: try { await update } catch (e) { console.error(...) }; the
\* promise of trackStorage resolves either way
trackStorageSettle(r, update) ==
    [result |-> [kind |-> "return", value |-> "undefined"],
     console |-> IF update.threw
                 THEN {[by |-> r, message |-> "Failed to track storage usage"]}
                 ELSE {}]

\* trackStorage(tenantId, mbUsed) is called and reaches its await
TrackStorageCall(r) ==
    /\ \/ req[r].pc = "idle"
       \/ req[r].op = "trackStorage" /\ req[r].pc = "resolved"
    /\ ledger.calls < MaxCalls
    /\ \E tenantId \in CallerTenantIds, mbUsed \in MbUsedValues :
          req' = [req EXCEPT ![r] =
                   [IdleReq EXCEPT !.op = "trackStorage", !.pc = "update",
                                   !.tenantId = tenantId, !.mbUsed = mbUsed]]
    /\ ledger' = [ledger EXCEPT !.calls = @ + 1]
    /\ UNCHANGED <<tenants, plans, users, owners, pets, nextId>>
    /\ UNCHANGED <<logs, pending, console, sales, inventory, env, signing, issued, expenses, tenants0>>

\* the database runs the update and the call settles
TrackStorageUpdate(r) ==
    /\ req[r].op = "trackStorage" /\ req[r].pc = "update"
    /\ \E dbUp \in BOOLEAN :
          LET update == tenantUpdate(req[r].tenantId, req[r].mbUsed, dbUp)
              settled == trackStorageSettle(r, update)
          IN /\ tenants' = update.tenants
             /\ console' = console \cup settled.console
             /\ req' = [req EXCEPT ![r] =
                      [@ EXCEPT !.pc = IF settled.result.kind = "return"
                                       THEN "resolved" ELSE "rejected",
                                !.dbFailed = update.threw,
                                !.result = settled.result]]
             /\ ledger' = IF update.threw
                          THEN ledger
                          ELSE [ledger EXCEPT !.sum[req[r].tenantId] = @ + req[r].mbUsed]
    /\ UNCHANGED <<plans, users, owners, pets, nextId>>
    /\ UNCHANGED <<logs, pending, sales, inventory, env, signing, issued, expenses, tenants0>>

----------------------------------------------------------------------------
(* The upload consumer the design asks for, of which src/ has no handler:
   check the storage quota first, then store and track the megabytes *)

\* after checkLimits(tenantId, 'storage', incrementAmount) has returned, the
\* request stores its file and calls trackStorage(tenantId, incrementAmount)
GuardedUpload(r) ==
    /\ req[r].op = "checkLimits" /\ req[r].pc = "returned"
    /\ req[r].resourceType = "storage"
    /\ tenants' = trackStorage(req[r].tenantId, req[r].incrementAmount)
    /\ req' = [req EXCEPT ![r] = [@ EXCEPT !.pc = "committed", !.created = "storage"]]
    /\ UNCHANGED <<plans, users, owners, pets, nextId>>
    /\ UNCHANGED rest

----------------------------------------------------------------------------
(* Spec: two concurrent requests on a seeded database with one clinic, each
   a checkLimits call or one of the handlers that create users and owners *)

\* the one plan row outside the catalog in Spec
SmallPlanLimits ==
    {[maxUsers |-> MaxLimit, maxClients |-> MaxLimit, maxStorageGB |-> GB(0, 1)]}

Init ==
    InitDB({"Active", "Restricted"}, {"Starter", "Custom"}, SmallPlanLimits,
           {1023, 2047}, 1..2, 0..1, {0})

Next ==
    \E r \in ReqIds :
        \/ CheckLimitsTenant(r)
        \/ CheckLimitsPlan(r)
        \/ PostUsers(r)
        \/ PostOwnersServer(r)
        \/ PostOwnersRoutes(r)

Spec == Init /\ [][Next]_vars

----------------------------------------------------------------------------
(* SpecUpload: two concurrent uploads, each checking and then tracking *)

InitUpload ==
    InitDB({"Active", "Restricted"}, {"Starter", "Custom"}, SmallPlanLimits,
           {1023, 2046, 2047}, {1}, {0}, {0})

NextUpload ==
    \E r \in ReqIds :
        \/ CheckLimitsTenant(r)
        \/ CheckLimitsPlan(r)
        \/ GuardedUpload(r)

SpecUpload == InitUpload /\ [][NextUpload]_vars

----------------------------------------------------------------------------
(* createLog, serverHelpers.ts:62-67 and server.ts:169-175, and the two
   handlers of server.ts that log: POST /patients and POST /sales/checkout *)

\* data of prisma.log.create; details (the pet's name, text about the sale) is
\* kept as about, the id of the record it was taken from, and by names the
\* request that issued the write
LogData(tenantId, user, action, type, about, by) ==
    [tenantId |-> tenantId, user |-> user, action |-> action, type |-> type,
     about |-> about, by |-> by]

\* prisma.log.create settles: the row is stored, or the promise rejects
logCreate(data, dbUp) ==
    IF dbUp
    THEN [threw |-> FALSE, logs |-> logs \cup {data}]
    ELSE [threw |-> TRUE, logs |-> logs]

\* variant: the write is awaited outside try/catch
createLogServer_noCatch(r, write) ==
    [threw |-> write.threw, console |-> {}]

\* server.ts:169-175: try { await prisma.log.create } catch (e) { console.error }
createLogServer(r, write) ==
    [threw |-> FALSE,
     console |-> IF write.threw THEN {[by |-> r, message |-> "Log failed:"]} ELSE {}]

\* serverHelpers.ts:64-66: the .catch handler of the write nobody awaits
createLogHelperCatch(r, write) ==
    IF write.threw THEN {[by |-> r, message |-> "[LOG ERROR] Failed to log"]} ELSE {}

Reply(code, body) == [kind |-> "reply", code |-> code, body |-> body]

\* the request's log write that has been issued and has not settled
PendingOf(r) == {w \in pending : w.by = r}

\* serverHelpers.ts:62-67: the write is issued and createLog returns at once
CreateLogCall(r) ==
    /\ req[r].pc = "idle"
    /\ \E tenantId \in CallerTenantIds, u \in users :
          /\ req' = [req EXCEPT ![r] =
                   [IdleReq EXCEPT !.op = "createLog", !.pc = "returned",
                                   !.tenantId = tenantId, !.user = u.email,
                                   !.result = [kind |-> "return", value |-> "undefined"]]]
          /\ pending' = pending \cup {LogData(tenantId, u.email, "Note", "system", 0, r)}
    /\ UNCHANGED <<tenants, plans, users, owners, pets, nextId>>
    /\ UNCHANGED <<logs, console, sales, inventory, env, signing, issued, expenses, tenants0, ledger>>

\* the write of a returned createLog settles; a rejection reaches the .catch
LogWriteSettle(r) ==
    /\ req[r].op = "createLog"
    /\ \E w \in PendingOf(r), dbUp \in BOOLEAN :
          LET write == logCreate(w, dbUp)
          IN /\ logs' = write.logs
             /\ console' = console \cup createLogHelperCatch(r, write)
             /\ pending' = pending \ {w}
    /\ UNCHANGED <<tenants, plans, users, owners, pets, nextId, req>>
    /\ UNCHANGED <<sales, inventory, env, signing, issued, expenses, tenants0, ledger>>

\* the handler's await createLog(...) ends and the handler returns what it
\* created; an exception out of createLog would be answered with 500
logThenReply(r, body) ==
    \E w \in PendingOf(r), dbUp \in BOOLEAN :
        LET write == logCreate(w, dbUp)
            settled == createLogServer(r, write)
        IN /\ logs' = write.logs
           /\ console' = console \cup settled.console
           /\ pending' = pending \ {w}
           /\ req' = [req EXCEPT ![r] =
                    IF settled.threw
                    THEN [@ EXCEPT !.pc = "replied500", !.result = Reply(500, {})]
                    ELSE [@ EXCEPT !.pc = "replied200", !.result = Reply(200, body)]]

\* variant: createLog is called whether or not the create went through
PostPatientsCreate_logAnyway(r) ==
    /\ req[r].pc = "idle"
    /\ \E u \in users, dbUp \in BOOLEAN :
          /\ pets' = IF dbUp
                     THEN pets \cup {[id |-> nextId, tenantId |-> u.tenantId]}
                     ELSE pets
          /\ nextId' = nextId + 1
          /\ pending' = pending \cup
                  {LogData(u.tenantId, u.email, "Created Patient", "clinical", nextId, r)}
          /\ req' = [req EXCEPT ![r] =
                   [IdleReq EXCEPT !.op = "POST /patients", !.pc = "awaitLog",
                                   !.tenantId = u.tenantId, !.user = u.email,
                                   !.dbFailed = ~dbUp,
                                   !.entity = IF dbUp THEN nextId ELSE 0]]
    /\ UNCHANGED <<tenants, plans, users, owners>>
    /\ UNCHANGED <<logs, console, sales, inventory, env, signing, issued, expenses, tenants0, ledger>>

\* POST /patients, server.ts:379-391: await prisma.pet.create, then the call
\* of createLog, which issues the log write and awaits it; a create that
\* throws ends the handler, and the framework answers 500
PostPatientsCreate(r) ==
    /\ req[r].pc = "idle"
    /\ \E u \in users, dbUp \in BOOLEAN :
          IF dbUp
          THEN /\ pets' = pets \cup {[id |-> nextId, tenantId |-> u.tenantId]}
               /\ nextId' = nextId + 1
               /\ pending' = pending \cup
                       {LogData(u.tenantId, u.email, "Created Patient", "clinical", nextId, r)}
               /\ req' = [req EXCEPT ![r] =
                        [IdleReq EXCEPT !.op = "POST /patients", !.pc = "awaitLog",
                                        !.tenantId = u.tenantId, !.user = u.email,
                                        !.entity = nextId]]
          ELSE /\ req' = [req EXCEPT ![r] =
                        [IdleReq EXCEPT !.op = "POST /patients", !.pc = "replied500",
                                        !.tenantId = u.tenantId, !.user = u.email,
                                        !.dbFailed = TRUE, !.result = Reply(500, {})]]
               /\ UNCHANGED <<pets, nextId, pending>>
    /\ UNCHANGED <<tenants, plans, users, owners>>
    /\ UNCHANGED <<logs, console, sales, inventory, env, signing, issued, expenses, tenants0, ledger>>

\* POST /patients, server.ts:391-392: the log write settles, return pet
PostPatientsReply(r) ==
    /\ req[r].op = "POST /patients" /\ req[r].pc = "awaitLog"
    /\ logThenReply(r, {p \in pets : p.id = req[r].entity})
    /\ UNCHANGED <<tenants, plans, users, owners, pets, nextId>>
    /\ UNCHANGED <<sales, inventory, env, signing, issued, expenses, tenants0, ledger>>

\* body.items of a checkout: an array of items, or something else; the items
\* name the rows of InitialInventory, no row, or the first row that a
\* POST /inventory creates
ItemLists ==
    {<<>>,
     <<[id |-> 1, quantity |-> 2]>>,
     <<[id |-> 1]>>,
     <<[id |-> 2, quantity |-> 0]>>,
     <<[quantity |-> 1]>>,
     <<[id |-> 3, quantity |-> 1]>>,
     <<[id |-> MaxCount + 1, quantity |-> 1]>>,
     <<[id |-> 1, quantity |-> 1], [id |-> 2, quantity |-> 2]>>,
     <<[id |-> 1, quantity |-> 1], [id |-> 1, quantity |-> 1]>>}

CheckoutItems ==
    {[array |-> TRUE, elems |-> l] : l \in ItemLists}
        \cup {[array |-> FALSE, elems |-> <<>>]}

\* Number(item.quantity || 1)
quantityOf(item) ==
    IF Has(item, "quantity") /\ item.quantity # 0 THEN item.quantity ELSE 1

\* tx.inventoryItem.updateMany({ where: { id, tenantId }, data: { stock: { decrement } } })
updateManyStock(inv, id, tenantId, quantity) ==
    {IF i.id = id /\ i.tenantId = tenantId
     THEN [i EXCEPT !.stock = @ - quantity] ELSE i : i \in inv}

\* server.ts:573-582: for (const item of items) if (item.id) updateMany(...)
RECURSIVE decrementStock(_, _, _)
decrementStock(inv, elems, tenantId) ==
    IF elems = <<>>
    THEN inv
    ELSE LET item == Head(elems)
         IN decrementStock(IF Has(item, "id") /\ item.id # 0
                           THEN updateManyStock(inv, item.id, tenantId, quantityOf(item))
                           ELSE inv,
                           Tail(elems), tenantId)

\* variant: the creates and updates are not in one transaction; a failure
\* after the sale's create leaves the sale without its decrements
PostSalesCheckout_noTransaction(r) ==
    /\ req[r].pc = "idle"
    /\ \E u \in users, items \in CheckoutItems, dbUp \in BOOLEAN :
          /\ sales' = sales \cup
                  {[id |-> nextId, tenantId |-> u.tenantId, items |-> items]}
          /\ nextId' = nextId + 1
          /\ IF dbUp
             THEN /\ inventory' = IF items.array
                                   THEN decrementStock(inventory, items.elems, u.tenantId)
                                   ELSE inventory
                  /\ pending' = pending \cup
                          {LogData(u.tenantId, u.email, "New Sale", "financial", nextId, r)}
                  /\ req' = [req EXCEPT ![r] =
                           [IdleReq EXCEPT !.op = "POST /sales/checkout", !.pc = "awaitLog",
                                           !.tenantId = u.tenantId, !.user = u.email,
                                           !.entity = nextId]]
             ELSE /\ req' = [req EXCEPT ![r] =
                           [IdleReq EXCEPT !.op = "POST /sales/checkout", !.pc = "replied500",
                                           !.tenantId = u.tenantId, !.user = u.email,
                                           !.dbFailed = TRUE, !.result = Reply(500, {})]]
                  /\ UNCHANGED <<inventory, pending>>
    /\ UNCHANGED <<tenants, plans, users, owners, pets>>
    /\ UNCHANGED <<logs, console, env, signing, issued, expenses, tenants0, ledger>>

\* POST /sales/checkout, server.ts:553-586: the transaction creates the sale
\* and decrements the stock of its items, and commits or rolls back as a
\* whole; after the commit createLog is called and awaited
PostSalesCheckout(r) ==
    /\ req[r].pc = "idle"
    /\ \E u \in users, items \in CheckoutItems, dbUp \in BOOLEAN :
          IF dbUp
          THEN /\ sales' = sales \cup
                       {[id |-> nextId, tenantId |-> u.tenantId, items |-> items]}
               /\ inventory' = IF items.array
                                THEN decrementStock(inventory, items.elems, u.tenantId)
                                ELSE inventory
               /\ nextId' = nextId + 1
               /\ pending' = pending \cup
                       {LogData(u.tenantId, u.email, "New Sale", "financial", nextId, r)}
               /\ req' = [req EXCEPT ![r] =
                        [IdleReq EXCEPT !.op = "POST /sales/checkout", !.pc = "awaitLog",
                                        !.tenantId = u.tenantId, !.user = u.email,
                                        !.entity = nextId]]
          ELSE /\ req' = [req EXCEPT ![r] =
                        [IdleReq EXCEPT !.op = "POST /sales/checkout", !.pc = "replied500",
                                        !.tenantId = u.tenantId, !.user = u.email,
                                        !.dbFailed = TRUE, !.result = Reply(500, {})]]
               /\ UNCHANGED <<sales, inventory, nextId, pending>>
    /\ UNCHANGED <<tenants, plans, users, owners, pets>>
    /\ UNCHANGED <<logs, console, env, signing, issued, expenses, tenants0, ledger>>

\* POST /sales/checkout, server.ts:586-587: the log write settles, return sale
PostSalesCheckoutReply(r) ==
    /\ req[r].op = "POST /sales/checkout" /\ req[r].pc = "awaitLog"
    /\ logThenReply(r, {x \in sales : x.id = req[r].entity})
    /\ UNCHANGED <<tenants, plans, users, owners, pets, nextId>>
    /\ UNCHANGED <<sales, inventory, env, signing, issued, expenses, tenants0, ledger>>

----------------------------------------------------------------------------
(* POST /sales/checkout of routes.ts:212-236 *)

\* body.items as this handler reads them: the item's id is in itemId
ItemListsRoutes ==
    {<<>>,
     <<[itemId |-> 1, quantity |-> 2]>>,
     <<[itemId |-> 2]>>,
     <<[quantity |-> 1]>>,
     <<[itemId |-> 3, quantity |-> 1]>>,
     <<[itemId |-> MaxCount + 1, quantity |-> 1]>>,
     <<[itemId |-> 1, quantity |-> 1], [itemId |-> 2, quantity |-> 2]>>}

CheckoutItemsRoutes ==
    {[array |-> TRUE, elems |-> l] : l \in ItemListsRoutes}
        \cup {[array |-> FALSE, elems |-> <<>>]}

\* routes.ts:224-232: for (const item of items) if (item.itemId) updateMany(...)
\* with decrement: item.quantity || 1
RECURSIVE decrementStockRoutes(_, _, _)
decrementStockRoutes(inv, elems, tenantId) ==
    IF elems = <<>>
    THEN inv
    ELSE LET item == Head(elems)
         IN decrementStockRoutes(
                IF Has(item, "itemId") /\ item.itemId # 0
                THEN updateManyStock(inv, item.itemId, tenantId, quantityOf(item))
                ELSE inv,
                Tail(elems), tenantId)

\* the handler in one step: the transaction creates the sale from the body
\* without its items and decrements the stock, and commits or rolls back as a
\* whole. The stored row has no items; the model keeps them in the row, marked
\* with the handler, for the properties to read
PostSalesCheckoutRoutes(r) ==
    /\ req[r].pc = "idle"
    /\ \E u \in users, items \in CheckoutItemsRoutes, dbUp \in BOOLEAN :
          IF dbUp
          THEN /\ sales' = sales \cup
                       {[id |-> nextId, tenantId |-> u.tenantId, items |-> items,
                         handler |-> "routes.ts"]}
               /\ inventory' = IF items.array
                                THEN decrementStockRoutes(inventory, items.elems, u.tenantId)
                                ELSE inventory
               /\ nextId' = nextId + 1
               /\ req' = [req EXCEPT ![r] =
                        [IdleReq EXCEPT !.op = "POST /sales/checkout (routes.ts)",
                                        !.pc = "replied200",
                                        !.tenantId = u.tenantId, !.user = u.email,
                                        !.entity = nextId,
                                        !.result = Reply(200, {[id |-> nextId,
                                                                tenantId |-> u.tenantId]})]]
          ELSE /\ req' = [req EXCEPT ![r] =
                        [IdleReq EXCEPT !.op = "POST /sales/checkout (routes.ts)",
                                        !.pc = "replied500",
                                        !.tenantId = u.tenantId, !.user = u.email,
                                        !.dbFailed = TRUE, !.result = Reply(500, {})]]
               /\ UNCHANGED <<sales, inventory, nextId>>
    /\ UNCHANGED <<tenants, plans, users, owners, pets>>
    /\ UNCHANGED <<logs, pending, console, env, signing, issued, expenses, tenants0, ledger>>

----------------------------------------------------------------------------
(* Tokens, the authentication hooks, and handlers that read, update and
   create entities: server.ts:226-310, 395-432 and routes.ts:11-29, 156-169,
   287-289, 327-343 *)

\* what a client of server.ts can send: a token that one of its logins has
\* signed, for staff or for an owner (both are in the login's response body
\* and stay valid whatever happens to the row), a forged one, or none
TokensServer ==
    {t \in issued : Has(t.payload, "userId")} \cup {NoToken, ForgedToken}

\* likewise for routes.ts, whose logins put the row's id in the payload's id
TokensRoutes ==
    {t \in issued : Has(t.payload, "id")} \cup {NoToken, ForgedToken}

\* a login has read its row and passed the tests on it; it awaits
\* bcrypt.compare with the token it will sign from what it read
LoginFind(token) ==
    /\ token \notin issued \cup signing
    /\ signing' = signing \cup {token}
    /\ issued' = issued
    /\ UNCHANGED <<tenants, plans, users, owners, pets, nextId, req>>
    /\ UNCHANGED <<logs, pending, console, sales, inventory, env, expenses, tenants0, ledger>>

\* POST /auth/login, server.ts:194-195: user.findUnique by e-mail
StaffLoginServerFind ==
    \E u \in users : LoginFind(StaffTokenServer(u))

\* POST /portal/login, server.ts:230-234: owner.findFirst, and 403 unless the
\* row read has isPortalActive and a passwordHash
PortalLoginServerFind ==
    \E o \in owners : PortalLoginOpen(o) /\ LoginFind(PortalTokenServer(o))

\* POST /auth/login, routes.ts:39-42: user.findUnique with the tenant, and
\* 401 without a tenant
StaffLoginRoutesFind ==
    \E u \in users : findTenant(u.tenantId) # {} /\ LoginFind(StaffTokenRoutes(u))

\* server.ts:197-218 and 236-251, routes.ts:44-75: bcrypt.compare with the
\* right password has resolved, and the login signs the token from the row
\* it read, whatever the row is now, and replies with it
LoginSign ==
    /\ \E token \in signing :
          /\ signing' = signing \ {token}
          /\ issued' = issued \cup {token}
    /\ UNCHANGED <<tenants, plans, users, owners, pets, nextId, req>>
    /\ UNCHANGED <<logs, pending, console, sales, inventory, env, expenses, tenants0, ledger>>

\* POST /portal/login, routes.ts:327-337: any owner found by e-mail; nothing
\* is awaited between the read and jwt.sign
PortalLoginRoutes ==
    /\ \E o \in owners :
          /\ PortalTokenRoutes(o) \notin issued
          /\ issued' = issued \cup {PortalTokenRoutes(o)}
    /\ signing' = signing
    /\ UNCHANGED <<tenants, plans, users, owners, pets, nextId, req>>
    /\ UNCHANGED <<logs, pending, console, sales, inventory, env, expenses, tenants0, ledger>>

\* server.ts:302-310, the hook of the staff routes: req.user, or none and 401
staffPreHandler(token) ==
    IF token.sig # "valid" THEN {}
    ELSE {[id |-> token.payload.userId, tenantId |-> token.payload.tenantId]}

\* server.ts:257-266, the hook of the portal routes: decoded.type !== 'CLIENT'
\* is refused
portalPreHandler(token) ==
    IF token.sig # "valid" THEN {}
    ELSE IF ~(Has(token.payload, "type") /\ token.payload.type = "CLIENT") THEN {}
    ELSE {[id |-> token.payload.userId, tenantId |-> token.payload.tenantId]}

\* routes.ts:11-29, the hook of every protected route: request.user = decoded
authenticate(token) ==
    IF token.sig # "valid" THEN {}
    ELSE {[id |-> token.payload.id, tenantId |-> token.payload.tenantId]}

\* ids a request can name in its path: of the rows, and one of no row
PathIds(table) == {x.id : x \in table} \cup {0}

\* a request that a hook has refused
Refused(r, op, token) ==
    [IdleReq EXCEPT !.op = op, !.pc = "replied401", !.token = token,
                    !.result = Reply(401, {})]

\* a request whose handler has run for req.user and replied
Served(r, op, token, user, code, body) ==
    [IdleReq EXCEPT !.op = op, !.pc = IF code = 200 THEN "replied200" ELSE "replied500",
                    !.token = token, !.user = user.id, !.tenantId = user.tenantId,
                    !.result = Reply(code, body)]

\* GET /patients/:id, server.ts:395-408: findUnique({ where: { id } })
GetPatientServer(r) ==
    /\ req[r].pc = "idle"
    /\ \E token \in TokensServer, id \in PathIds(pets) :
          req' = [req EXCEPT ![r] =
                   IF staffPreHandler(token) = {}
                   THEN Refused(r, "GET /patients/:id", token)
                   ELSE Served(r, "GET /patients/:id", token,
                               CHOOSE u \in staffPreHandler(token) : TRUE,
                               200, {p \in pets : p.id = id})]
    /\ UNCHANGED <<tenants, plans, users, owners, pets, nextId>>
    /\ UNCHANGED rest

\* PATCH /owners/:id/portal, server.ts:427-432: data is isPortalActive and,
\* when the body has a password, its hash; update({ where: { id } }) throws
\* when no row has the id; the updated row is returned
PatchOwnerPortal(r) ==
    /\ req[r].pc = "idle"
    /\ \E token \in TokensServer, id \in PathIds(owners), isActive \in BOOLEAN,
          password \in {"", "secret"} :
          LET found == {o \in owners : o.id = id}
              updated == {[id |-> o.id, tenantId |-> o.tenantId,
                           isPortalActive |-> isActive,
                           passwordHash |-> IF password # "" THEN "hash"
                                            ELSE IF Has(o, "passwordHash")
                                            THEN o.passwordHash ELSE "null"] :
                             o \in found}
          IN IF staffPreHandler(token) = {}
             THEN /\ req' = [req EXCEPT ![r] = Refused(r, "PATCH /owners/:id/portal", token)]
                  /\ owners' = owners
             ELSE /\ req' = [req EXCEPT ![r] =
                           Served(r, "PATCH /owners/:id/portal", token,
                                  CHOOSE u \in staffPreHandler(token) : TRUE,
                                  IF found = {} THEN 500 ELSE 200, updated)]
                  /\ owners' = (owners \ found) \cup updated
    /\ UNCHANGED <<tenants, plans, users, pets, nextId>>
    /\ UNCHANGED rest

\* GET /portal/pets, server.ts:294-296: findMany({ where: { ownerId: req.user.id } })
PortalPets(r) ==
    /\ req[r].pc = "idle"
    /\ \E token \in TokensServer :
          req' = [req EXCEPT ![r] =
                   IF portalPreHandler(token) = {}
                   THEN Refused(r, "GET /portal/pets", token)
                   ELSE LET user == CHOOSE u \in portalPreHandler(token) : TRUE
                        IN Served(r, "GET /portal/pets", token, user, 200,
                                  {p \in pets : Has(p, "ownerId") /\ p.ownerId = user.id})]
    /\ UNCHANGED <<tenants, plans, users, owners, pets, nextId>>
    /\ UNCHANGED rest

\* GET /patients/:id, routes.ts:164-169: findFirst({ where: { id, tenantId } })
GetPatientRoutes(r) ==
    /\ req[r].pc = "idle"
    /\ \E token \in TokensRoutes, id \in PathIds(pets) :
          req' = [req EXCEPT ![r] =
                   IF authenticate(token) = {}
                   THEN Refused(r, "GET /patients/:id (routes.ts)", token)
                   ELSE LET user == CHOOSE u \in authenticate(token) : TRUE
                        IN Served(r, "GET /patients/:id (routes.ts)", token, user, 200,
                                  {p \in pets : p.id = id /\ p.tenantId = user.tenantId})]
    /\ UNCHANGED <<tenants, plans, users, owners, pets, nextId>>
    /\ UNCHANGED rest

\* GET /portal/dashboard, routes.ts:339-342
PortalDashboardRoutes(r) ==
    /\ req[r].pc = "idle"
    /\ \E token \in TokensRoutes :
          req' = [req EXCEPT ![r] =
                   IF authenticate(token) = {}
                   THEN Refused(r, "GET /portal/dashboard (routes.ts)", token)
                   ELSE Served(r, "GET /portal/dashboard (routes.ts)", token,
                               CHOOSE u \in authenticate(token) : TRUE, 200, {})]
    /\ UNCHANGED <<tenants, plans, users, owners, pets, nextId>>
    /\ UNCHANGED rest

\* req.body of a create: the entity's own fields, with or without a tenantId
\* and an id of the client's choosing
CreateBodies ==
    {[name |-> "Rex", ownerId |-> 1],
     [name |-> "Rex", ownerId |-> 1, tenantId |-> "t2"],
     [name |-> "Rex", ownerId |-> 1, id |-> 99],
     [name |-> "Rex", ownerId |-> 1, tenantId |-> "t2", id |-> 99]}

\* { ...body, k: v, ... }: the keys of both, a later key replacing an earlier
Spread(body, over) ==
    [k \in DOMAIN body \cup DOMAIN over |-> IF k \in DOMAIN over THEN over[k] ELSE body[k]]

\* POST /patients, routes.ts:156-162: data { ...req.body, tenantId, id: generateId('P') }
PostPatientsRoutes(r) ==
    /\ req[r].pc = "idle"
    /\ \E token \in TokensRoutes, body \in CreateBodies :
          IF authenticate(token) = {}
          THEN /\ req' = [req EXCEPT ![r] = Refused(r, "POST /patients (routes.ts)", token)]
               /\ UNCHANGED <<pets, nextId>>
          ELSE LET user == CHOOSE u \in authenticate(token) : TRUE
                   data == Spread(body, [tenantId |-> user.tenantId, id |-> nextId])
                   row == [id |-> data.id, tenantId |-> data.tenantId,
                           ownerId |-> data.ownerId]
               IN /\ pets' = pets \cup {row}
                  /\ nextId' = nextId + 1
                  /\ req' = [req EXCEPT ![r] =
                           [Served(r, "POST /patients (routes.ts)", token, user, 200, {row})
                               EXCEPT !.body = body, !.entity = row.id]]
    /\ UNCHANGED <<tenants, plans, users, owners>>
    /\ UNCHANGED rest

\* POST /expenses, routes.ts:287-289: data { ...req.body, tenantId }; an id of
\* the body is stored, a taken one makes the create throw; without one the
\* column's default gives the id
PostExpensesRoutes(r) ==
    /\ req[r].pc = "idle"
    /\ \E token \in TokensRoutes, body \in CreateBodies :
          IF authenticate(token) = {}
          THEN /\ req' = [req EXCEPT ![r] = Refused(r, "POST /expenses (routes.ts)", token)]
               /\ UNCHANGED <<expenses, nextId>>
          ELSE LET user == CHOOSE u \in authenticate(token) : TRUE
                   data == Spread(body, [tenantId |-> user.tenantId])
                   row == [id |-> IF Has(data, "id") THEN data.id ELSE nextId,
                           tenantId |-> data.tenantId]
               IN IF \E e \in expenses : e.id = row.id
                  THEN /\ req' = [req EXCEPT ![r] =
                                [Served(r, "POST /expenses (routes.ts)", token, user, 500, {})
                                    EXCEPT !.body = body, !.dbFailed = TRUE]]
                       /\ UNCHANGED <<expenses, nextId>>
                  ELSE /\ expenses' = expenses \cup {row}
                       /\ nextId' = nextId + 1
                       /\ req' = [req EXCEPT ![r] =
                                [Served(r, "POST /expenses (routes.ts)", token, user, 200, {row})
                                    EXCEPT !.body = body, !.entity = row.id]]
    /\ UNCHANGED <<tenants, plans, users, owners, pets>>
    /\ UNCHANGED <<logs, pending, console, sales, inventory, env, signing, issued, tenants0, ledger>>

\* POST /expenses, server.ts:516-529: the row is built field by field, with
\* id: generateId('EXP') and the tenantId of req.user
PostExpensesServer(r) ==
    /\ req[r].pc = "idle"
    /\ \E token \in TokensServer, body \in CreateBodies :
          IF staffPreHandler(token) = {}
          THEN /\ req' = [req EXCEPT ![r] = Refused(r, "POST /expenses", token)]
               /\ UNCHANGED <<expenses, nextId>>
          ELSE LET user == CHOOSE u \in staffPreHandler(token) : TRUE
                   row == [id |-> nextId, tenantId |-> user.tenantId]
               IN /\ expenses' = expenses \cup {row}
                  /\ nextId' = nextId + 1
                  /\ req' = [req EXCEPT ![r] =
                           [Served(r, "POST /expenses", token, user, 200, {row})
                               EXCEPT !.body = body, !.entity = row.id]]
    /\ UNCHANGED <<tenants, plans, users, owners, pets>>
    /\ UNCHANGED <<logs, pending, console, sales, inventory, env, signing, issued, tenants0, ledger>>

\* req.body of POST /inventory: the item's fields with a numeric stock, with
\* or without a tenantId and an id of the client's choosing
InventoryBodies ==
    {[name |-> "x", stock |-> 0],
     [name |-> "x", stock |-> 4],
     [name |-> "x", stock |-> 4, tenantId |-> "system", id |-> 1]}

\* POST /inventory, server.ts:535-548: the row is built field by field, with
\* id: generateId('INV'), the tenantId of req.user and stock: Number(body.stock)
PostInventoryServer(r) ==
    /\ req[r].pc = "idle"
    /\ \E token \in TokensServer, body \in InventoryBodies :
          IF staffPreHandler(token) = {}
          THEN /\ req' = [req EXCEPT ![r] = Refused(r, "POST /inventory", token)]
               /\ UNCHANGED <<inventory, nextId>>
          ELSE LET user == CHOOSE u \in staffPreHandler(token) : TRUE
                   row == [id |-> nextId, tenantId |-> user.tenantId, stock |-> body.stock]
               IN /\ inventory' = inventory \cup {row}
                  /\ nextId' = nextId + 1
                  /\ req' = [req EXCEPT ![r] =
                           [Served(r, "POST /inventory", token, user, 200, {row})
                               EXCEPT !.body = body, !.entity = row.id]]
    /\ UNCHANGED <<tenants, plans, users, owners, pets>>
    /\ UNCHANGED <<logs, pending, console, sales, expenses, env, signing, issued, tenants0, ledger>>

\* POST /inventory, routes.ts:199-203: data { ...req.body, tenantId, id: generateId('INV') }
PostInventoryRoutes(r) ==
    /\ req[r].pc = "idle"
    /\ \E token \in TokensRoutes, body \in InventoryBodies :
          IF authenticate(token) = {}
          THEN /\ req' = [req EXCEPT ![r] = Refused(r, "POST /inventory (routes.ts)", token)]
               /\ UNCHANGED <<inventory, nextId>>
          ELSE LET user == CHOOSE u \in authenticate(token) : TRUE
                   data == Spread(body, [tenantId |-> user.tenantId, id |-> nextId])
                   row == [id |-> data.id, tenantId |-> data.tenantId, stock |-> data.stock]
               IN /\ inventory' = inventory \cup {row}
                  /\ nextId' = nextId + 1
                  /\ req' = [req EXCEPT ![r] =
                           [Served(r, "POST /inventory (routes.ts)", token, user, 200, {row})
                               EXCEPT !.body = body, !.entity = row.id]]
    /\ UNCHANGED <<tenants, plans, users, owners, pets>>
    /\ UNCHANGED <<logs, pending, console, sales, expenses, env, signing, issued, tenants0, ledger>>

----------------------------------------------------------------------------
(* verifyPayment, serverHelpers.ts:141-172 *)

\* a JavaScript string is the sequence of its characters
Str(chars) == [type |-> "string", chars |-> chars]
Undefined == [type |-> "undefined"]

Mock == <<"m", "o", "c", "k", "-">>
Trial == <<"T", "R", "I", "A", "L">>

\* the characters that follow a prefix in the references tried
MaxSuffix == 2
SuffixChars == {"1", "-"}
Suffixes == UNION {[1..k -> SuffixChars] : k \in 0..MaxSuffix}

\* references a caller passes: with the mock prefix, the trial code, near
\* misses of both, references of the gateway, and no reference at all
TransactionIds ==
    {Str(Mock \o x) : x \in Suffixes}
        \cup {Str(Trial \o x) : x \in Suffixes}
        \cup {Str(x) : x \in Suffixes}
        \cup {Str(SubSeq(Mock, 1, k)) : k \in 1..4}
        \cup {Str(SubSeq(Trial, 1, 4)),
              Str(<<"M", "O", "C", "K", "-", "1">>),
              Str(<<"t", "r", "i", "a", "l">>),
              Str(<<"x">> \o Mock),
              Str(<<"F", "L", "W", "1">>),
              Undefined}

\* process.env: a variable is a string or is not set
NodeEnvs == {"production", "development", "test", "unset"}
SecretKeys == {"FLWSECK-1", "", "unset"}
Envs == [NODE_ENV : NodeEnvs, FLUTTERWAVE_SECRET_KEY : SecretKeys]

\* !process.env.X is true for a variable that is not set or is empty
Truthy(v) == v \notin {"", "unset"}

\* String.prototype.startsWith
startsWith(chars, prefix) ==
    /\ Len(chars) >= Len(prefix)
    /\ SubSeq(chars, 1, Len(prefix)) = prefix

\* variant: the bypass is open in development only
bypass_developmentOnly(e, transactionId) ==
    IF e.NODE_ENV # "development" THEN "false"
    ELSE IF transactionId.type # "string" THEN "TypeError"
    ELSE IF startsWith(transactionId.chars, Mock) \/ transactionId.chars = Trial
         THEN "true" ELSE "false"

\* variant: the bypass does not look at NODE_ENV
bypass_anyEnv(e, transactionId) ==
    IF transactionId.type # "string" THEN "TypeError"
    ELSE IF startsWith(transactionId.chars, Mock) \/ transactionId.chars = Trial
         THEN "true" ELSE "false"

\* lines 144-147: NODE_ENV !== 'production' && (transactionId.startsWith('mock-')
\* || transactionId === 'TRIAL'); startsWith of undefined is a TypeError
bypass(e, transactionId) ==
    IF e.NODE_ENV = "production" THEN "false"
    ELSE IF transactionId.type # "string" THEN "TypeError"
    ELSE IF startsWith(transactionId.chars, Mock) \/ transactionId.chars = Trial
         THEN "true" ELSE "false"

\* the value the promise of verifyPayment resolves with
Verified(b) == [kind |-> "return", verified |-> b]

\* variant: no catch, the exception leaves verifyPayment
Caught_rethrow(r) ==
    [pc |-> "threw", result |-> [kind |-> "throw", error |-> "TypeError"],
     console |-> {}]

\* lines 168-171: catch (error) { console.error(...); return false }
Caught(r) ==
    [pc |-> "returned", result |-> Verified(FALSE),
     console |-> {[by |-> r, message |-> "Payment verification failed"]}]

\* variant: the credential is not looked at before the gateway is called
verifyPaymentEntry_noKeyCheck(r, e, transactionId) ==
    LET b == bypass(e, transactionId)
    IN IF b = "TypeError" THEN Caught(r)
       ELSE IF b = "true"
       THEN [pc |-> "returned", result |-> Verified(TRUE), console |-> {}]
       ELSE [pc |-> "fetching", result |-> NoResult, console |-> {}]

\* lines 142-156: the bypass, the credential check, and the call of fetch
verifyPaymentEntry(r, e, transactionId) ==
    LET b == bypass(e, transactionId)
    IN IF b = "TypeError" THEN Caught(r)
       ELSE IF b = "true"
       THEN [pc |-> "returned", result |-> Verified(TRUE), console |-> {}]
       ELSE IF ~Truthy(e.FLUTTERWAVE_SECRET_KEY)
       THEN [pc |-> "returned", result |-> Verified(FALSE),
             console |-> {[by |-> r, message |-> "Missing FLUTTERWAVE_SECRET_KEY"]}]
       ELSE [pc |-> "fetching", result |-> NoResult, console |-> {}]

\* JSON values of a response body: null, or an object with some fields
Null == [type |-> "null"]
Obj(fields) == [type |-> "object", fields |-> fields]

JsonBodies ==
    {Null,
     Obj([status |-> "success", data |-> Obj([status |-> "successful"])]),
     Obj([status |-> "success", message |-> "Transaction fetched successfully",
          data |-> Obj([id |-> "1", status |-> "successful"])]),
     Obj([status |-> "success", data |-> Obj([status |-> "failed"])]),
     Obj([status |-> "success", data |-> Obj([status |-> "pending"])]),
     Obj([status |-> "success", data |-> Obj([id |-> "1"])]),
     Obj([status |-> "success", data |-> Null]),
     Obj([status |-> "success"]),
     Obj([status |-> "error", data |-> Obj([status |-> "successful"])]),
     Obj([status |-> "error", data |-> Null]),
     Obj([status |-> "error"]),
     Obj([data |-> Obj([status |-> "successful"])]),
     Obj([message |-> "x"])}

\* what fetch gives: a rejection, or a response with ok and a body that
\* response.json() parses or rejects
Responses ==
    {[kind |-> "exception"]}
        \cup {[kind |-> "response", ok |-> ok, parses |-> FALSE, json |-> Null] :
                  ok \in BOOLEAN}
        \cup {[kind |-> "response", ok |-> ok, parses |-> TRUE, json |-> j] :
                  ok \in BOOLEAN, j \in JsonBodies}

\* variant: the envelope status alone decides
interpret_envelopeOnly(data) ==
    IF data.type # "object" THEN "TypeError"
    ELSE IF Has(data.fields, "status") /\ data.fields.status = "success"
         THEN "true" ELSE "false"

\* line 167: data.status === 'success' && data.data.status === 'successful';
\* a property of null or of undefined is a TypeError
interpret(data) ==
    IF data.type # "object" THEN "TypeError"
    ELSE IF ~Has(data.fields, "status") \/ data.fields.status # "success" THEN "false"
    ELSE IF ~Has(data.fields, "data") THEN "TypeError"
    ELSE IF data.fields.data.type # "object" THEN "TypeError"
    ELSE IF /\ Has(data.fields.data.fields, "status")
            /\ data.fields.data.fields.status = "successful"
         THEN "true" ELSE "false"

\* lines 156-171 after fetch has settled
verifyPaymentGateway(r, response) ==
    IF response.kind = "exception" THEN Caught(r)
    ELSE IF ~response.ok
    THEN [pc |-> "returned", result |-> Verified(FALSE), console |-> {}]
    ELSE IF ~response.parses THEN Caught(r)
    ELSE LET v == interpret(response.json)
         IN IF v = "TypeError" THEN Caught(r)
            ELSE [pc |-> "returned", result |-> Verified(v = "true"), console |-> {}]

\* verifyPayment(transactionId) up to its return or its await fetch
VerifyPaymentCall(r) ==
    /\ req[r].pc = "idle"
    /\ \E transactionId \in TransactionIds :
          LET entry == verifyPaymentEntry(r, env, transactionId)
          IN /\ req' = [req EXCEPT ![r] =
                      [IdleReq EXCEPT !.op = "verifyPayment", !.pc = entry.pc,
                                      !.transactionId = transactionId,
                                      !.gatewayCalls = IF entry.pc = "fetching" THEN 1 ELSE 0,
                                      !.result = entry.result]]
             /\ console' = console \cup entry.console
    /\ UNCHANGED <<tenants, plans, users, owners, pets, nextId>>
    /\ UNCHANGED <<logs, pending, sales, inventory, env, signing, issued, expenses, tenants0, ledger>>

\* fetch settles and verifyPayment runs to its return
VerifyPaymentResponse(r) ==
    /\ req[r].op = "verifyPayment" /\ req[r].pc = "fetching"
    /\ \E response \in Responses :
          LET done == verifyPaymentGateway(r, response)
          IN /\ req' = [req EXCEPT ![r] =
                      [@ EXCEPT !.pc = done.pc, !.response = response,
                                !.result = done.result]]
             /\ console' = console \cup done.console
    /\ UNCHANGED <<tenants, plans, users, owners, pets, nextId>>
    /\ UNCHANGED <<logs, pending, sales, inventory, env, signing, issued, expenses, tenants0, ledger>>

----------------------------------------------------------------------------
(* POST /auth/signup, routes.ts:79-115 *)

\* `tenant-${Date.now()}`: the id is the text of the clock, the same for two
\* requests that read the clock in the same millisecond
TenantIdsByClock == <<"tenant-1", "tenant-2", "tenant-3">>

\* req.body.email: the super admin's address and two free ones
SignupEmails == {AdminEmail, 1, 2}

\* req.body.plan: catalog ids, an id of no plan, the empty string, no value
BodyPlans == {"Trial", "Premium", "Bogus", "", "unset"}

\* paymentRef, which AuthService.signup (api.ts:94) puts into the body
PaymentRefs == {Undefined, Str(Mock \o <<"1">>), Str(<<"F", "L", "W", "1">>)}

\* tx.tenant.create data, lines 91-98: plan: plan || 'Trial', status: 'Active'
SignupTenant(tenantId, plan) ==
    [id |-> tenantId, status |-> "Active",
     plan |-> IF Truthy(plan) THEN plan ELSE "Trial", storageUsed |-> 0]

\* lines 80-86: the body is read, the e-mail address is looked up, and the
\* tenant id is taken from the clock, which may or may not move on before the
\* next request reads it; the handler has no call of verifyPayment
SignupFind(r) ==
    /\ req[r].pc = "idle"
    /\ nextId < Len(TenantIdsByClock)
    /\ \E email \in SignupEmails, plan \in BodyPlans, paymentRef \in PaymentRefs :
          req' = [req EXCEPT ![r] =
                   IF \E u \in users : u.email = email
                   THEN [IdleReq EXCEPT !.op = "POST /auth/signup", !.pc = "replied400",
                                        !.user = email, !.plan = plan,
                                        !.transactionId = paymentRef,
                                        !.result = Reply(400, {})]
                   ELSE [IdleReq EXCEPT !.op = "POST /auth/signup", !.pc = "transaction",
                                        !.user = email, !.plan = plan,
                                        !.transactionId = paymentRef,
                                        !.tenantId = TenantIdsByClock[nextId]]]
    /\ nextId' \in {nextId, nextId + 1}
    /\ UNCHANGED <<tenants, plans, users, owners, pets>>
    /\ UNCHANGED rest

\* variant: the two creates are not in one transaction
SignupCommit_noTransaction(r) ==
    /\ req[r].op = "POST /auth/signup" /\ req[r].pc = "transaction"
    /\ \E dbUp \in BOOLEAN :
          LET tenantOk == dbUp /\ findTenant(req[r].tenantId) = {}
              userOk == tenantOk /\ \A u \in users : u.email # req[r].user
          IN /\ tenants' = IF tenantOk
                           THEN tenants \cup {SignupTenant(req[r].tenantId, req[r].plan)}
                           ELSE tenants
             /\ users' = IF userOk
                         THEN users \cup {[email |-> req[r].user, tenantId |-> req[r].tenantId]}
                         ELSE users
             /\ req' = [req EXCEPT ![r] =
                      IF userOk
                      THEN [@ EXCEPT !.pc = "replied200", !.result = Reply(200, {})]
                      ELSE [@ EXCEPT !.pc = "replied500", !.dbFailed = TRUE,
                                     !.result = Reply(500, {})]]
    /\ UNCHANGED <<plans, owners, pets, nextId>>
    /\ UNCHANGED rest

\* lines 89-112: one transaction creates the tenant and its Admin user; a
\* taken tenant id, a taken e-mail address or a database failure makes a create
\* throw, the transaction rolls back, and the request is answered with 500
SignupCommit(r) ==
    /\ req[r].op = "POST /auth/signup" /\ req[r].pc = "transaction"
    /\ \E dbUp \in BOOLEAN :
          IF /\ dbUp
             /\ findTenant(req[r].tenantId) = {}
             /\ \A u \in users : u.email # req[r].user
          THEN /\ tenants' = tenants \cup {SignupTenant(req[r].tenantId, req[r].plan)}
               /\ users' = users \cup {[email |-> req[r].user, tenantId |-> req[r].tenantId]}
               /\ req' = [req EXCEPT ![r] =
                        [@ EXCEPT !.pc = "replied200", !.result = Reply(200, {})]]
          ELSE /\ req' = [req EXCEPT ![r] =
                        [@ EXCEPT !.pc = "replied500", !.dbFailed = TRUE,
                                  !.result = Reply(500, {})]]
               /\ UNCHANGED <<tenants, users>>
    /\ UNCHANGED <<plans, owners, pets, nextId>>
    /\ UNCHANGED rest

----------------------------------------------------------------------------
(* Startup seeding, server.ts:84-123 *)

\* the times the process is started
MaxBoots == 2

\* variant: update: {} in place of update: p
upsertPlan_createOnly(table, p) ==
    IF \E q \in table : q.id = p.id THEN table ELSE table \cup {p}

\* line 87, prisma.plan.upsert({ where: { id: p.id }, update: p, create: p })
upsertPlan(table, p) ==
    {q \in table : q.id # p.id} \cup {p}

\* limits that PATCH /plans/:id has put on a catalog plan's row
EditedLimits == [maxUsers |-> MaxLimit, maxClients |-> -1, maxStorageGB |-> GB(1, 1)]

\* the Plan table a start can meet: of each catalog plan no row, the
\* catalog's row or an edited row, and possibly a plan outside the catalog
PlanTables ==
    {{IF p.id \in edited THEN [p EXCEPT !.limits = EditedLimits] ELSE p :
          p \in {q \in SeededPlans : q.id \in present}} \cup custom :
        present \in SUBSET CatalogIds, edited \in SUBSET CatalogIds,
        custom \in {{}, {[id |-> "Custom", limits |-> EditedLimits]}}}

\* lines 76-82: the process starts (or starts again) and connects; a failed
\* $connect reaches the catch of start, which ends the process
SeedStart(r) ==
    /\ req[r].pc \in {"idle", "listening", "exited"}
    /\ req[r].runs < MaxBoots
    /\ \E dbUp \in BOOLEAN :
          req' = [req EXCEPT ![r] =
                   IF dbUp
                   THEN [IdleReq EXCEPT !.op = "start", !.pc = "seeding", !.entity = 1,
                                        !.runs = req[r].runs]
                   ELSE [IdleReq EXCEPT !.op = "start", !.pc = "exited", !.dbFailed = TRUE,
                                        !.runs = req[r].runs]]
    /\ UNCHANGED <<tenants, plans, users, owners, pets, nextId>>
    /\ UNCHANGED rest

\* catch of start, lines 129-132: process.exit(1)
Exited(r) == [req[r] EXCEPT !.pc = "exited", !.dbFailed = TRUE]

\* lines 85-89: one turn of the loop; an upsert that throws reaches the catch.
\* runs counts the times the loop has run to its end
SeedPlan(r) ==
    /\ req[r].op = "start" /\ req[r].pc = "seeding"
    /\ req[r].entity <= Len(DEFAULT_PLANS)
    /\ \E dbUp \in BOOLEAN :
          IF dbUp
          THEN /\ plans' = upsertPlan(plans, DEFAULT_PLANS[req[r].entity])
               /\ req' = [req EXCEPT ![r] =
                        IF req[r].entity = Len(DEFAULT_PLANS)
                        THEN [@ EXCEPT !.pc = "tenant", !.entity = @ + 1, !.runs = @ + 1]
                        ELSE [@ EXCEPT !.entity = @ + 1]]
          ELSE /\ plans' = plans
               /\ req' = [req EXCEPT ![r] = Exited(r)]
    /\ UNCHANGED <<tenants, users, owners, pets, nextId>>
    /\ UNCHANGED rest

\* lines 93-103: the system tenant is upserted with update: {}
SeedSystemTenant(r) ==
    /\ req[r].op = "start" /\ req[r].pc = "tenant"
    /\ \E dbUp \in BOOLEAN :
          IF dbUp
          THEN /\ tenants' = IF findTenant("system") = {}
                             THEN tenants \cup {SystemTenant} ELSE tenants
               /\ req' = [req EXCEPT ![r] = [@ EXCEPT !.pc = "findAdmin"]]
          ELSE /\ tenants' = tenants
               /\ req' = [req EXCEPT ![r] = Exited(r)]
    /\ UNCHANGED <<plans, users, owners, pets, nextId>>
    /\ UNCHANGED rest

\* lines 106-109: user.findUnique({ where: { email: adminEmail } })
SeedFindAdmin(r) ==
    /\ req[r].op = "start" /\ req[r].pc = "findAdmin"
    /\ \E dbUp \in BOOLEAN :
          req' = [req EXCEPT ![r] =
                   IF ~dbUp THEN Exited(r)
                   ELSE IF \E u \in users : u.email = AdminEmail
                   THEN [@ EXCEPT !.pc = "listen"]
                   ELSE [@ EXCEPT !.pc = "createAdmin"]]
    /\ UNCHANGED <<tenants, plans, users, owners, pets, nextId>>
    /\ UNCHANGED rest

\* lines 110-122: the password is hashed and the super admin created; the
\* create throws when a row with the address has appeared since the find
SeedCreateAdmin(r) ==
    /\ req[r].op = "start" /\ req[r].pc = "createAdmin"
    /\ \E dbUp \in BOOLEAN :
          IF dbUp /\ ~\E u \in users : u.email = AdminEmail
          THEN /\ users' = users \cup {SuperAdmin}
               /\ req' = [req EXCEPT ![r] = [@ EXCEPT !.pc = "listen"]]
          ELSE /\ users' = users
               /\ req' = [req EXCEPT ![r] = Exited(r)]
    /\ UNCHANGED <<tenants, plans, owners, pets, nextId>>
    /\ UNCHANGED rest

\* lines 125-127: app.listen, which rejects when the port is taken
SeedListen(r) ==
    /\ req[r].op = "start" /\ req[r].pc = "listen"
    /\ \E bound \in BOOLEAN :
          req' = [req EXCEPT ![r] =
                   IF bound THEN [@ EXCEPT !.pc = "listening"]
                   ELSE [@ EXCEPT !.pc = "exited"]]
    /\ UNCHANGED <<tenants, plans, users, owners, pets, nextId>>
    /\ UNCHANGED rest

----------------------------------------------------------------------------
(* SpecTrack: concurrent trackStorage calls on a seeded database *)

InitTrack ==
    InitDB({"Active"}, {"Starter"}, SmallPlanLimits, {0, 511}, {1}, {0}, {0})

NextTrack ==
    \E r \in ReqIds :
        \/ TrackStorageCall(r)
        \/ TrackStorageUpdate(r)

SpecTrack == InitTrack /\ [][NextTrack]_vars

----------------------------------------------------------------------------
(* SpecLog: two concurrent requests that write to the audit log *)

InitLog ==
    InitDB({"Active"}, {"Starter"}, SmallPlanLimits, {0}, {1}, {1}, 0..1)

NextLog ==
    \E r \in ReqIds :
        \/ CreateLogCall(r)
        \/ LogWriteSettle(r)
        \/ PostPatientsCreate(r)
        \/ PostPatientsReply(r)
        \/ PostSalesCheckout(r)
        \/ PostSalesCheckoutReply(r)
        \/ PostSalesCheckoutRoutes(r)
        \/ PostInventoryServer(r)
        \/ PostInventoryRoutes(r)

SpecLog == InitLog /\ [][NextLog]_vars

----------------------------------------------------------------------------
(* SpecPay: one verifyPayment call in every environment *)

InitPay ==
    /\ tenants = {SystemTenant}
    /\ plans = SeededPlans
    /\ users = {SuperAdmin}
    /\ owners = {}
    /\ pets = {}
    /\ nextId = 1
    /\ req = [r \in ReqIds |-> IdleReq]
    /\ InitRest
    /\ issued = SignedFor(users, owners)
    /\ env \in Envs

NextPay ==
    \/ VerifyPaymentCall("r1")
    \/ VerifyPaymentResponse("r1")

SpecPay == InitPay /\ [][NextPay]_vars

----------------------------------------------------------------------------
(* SpecSignup: two concurrent signups on the database that startup leaves *)

\* server.ts:84-123 on an empty database
InitSeeded ==
    /\ tenants = {SystemTenant}
    /\ plans = SeededPlans
    /\ users = {SuperAdmin}
    /\ owners = {}
    /\ pets = {}
    /\ nextId = 1
    /\ req = [r \in ReqIds |-> IdleReq]
    /\ InitRest
    /\ issued = SignedFor(users, owners)
    /\ env = ProductionEnv

NextSignup ==
    \E r \in ReqIds :
        \/ SignupFind(r)
        \/ SignupCommit(r)

SpecSignup == InitSeeded /\ [][NextSignup]_vars

----------------------------------------------------------------------------
(* SpecSeed: the process is started a number of times on any Plan table *)

InitSeed ==
    /\ \/ tenants = {} /\ users = {}
       \/ tenants = {SystemTenant} /\ users = {}
       \/ tenants = {SystemTenant} /\ users = {SuperAdmin}
    /\ plans \in PlanTables
    /\ owners = {}
    /\ pets = {}
    /\ nextId = 1
    /\ req = [r \in ReqIds |-> IdleReq]
    /\ InitRest
    /\ issued = SignedFor(users, owners)
    /\ env = ProductionEnv

NextSeed ==
    \/ SeedStart("r1")
    \/ SeedPlan("r1")
    \/ SeedSystemTenant("r1")
    \/ SeedFindAdmin("r1")
    \/ SeedCreateAdmin("r1")
    \/ SeedListen("r1")

SpecSeed == InitSeed /\ [][NextSeed]_vars

----------------------------------------------------------------------------
(* SpecAccess: two clinics, their staff and owners, their logins, and two
   requests *)

InitAccess ==
    /\ tenants = {SystemTenant, TenantRow("Active", "Starter", 0),
                  [TenantRow("Active", "Trial", 0) EXCEPT !.id = "t2"]}
    /\ plans = SeededPlans
    /\ users = {SuperAdmin, [email |-> 1, tenantId |-> "t1"], [email |-> 2, tenantId |-> "t2"]}
    /\ owners = {[id |-> 1, tenantId |-> "t1", isPortalActive |-> TRUE,
                  passwordHash |-> "hash"],
                 [id |-> 2, tenantId |-> "t2", isPortalActive |-> FALSE,
                  passwordHash |-> "null"]}
    /\ pets = {[id |-> 1, tenantId |-> "t1", ownerId |-> 1],
               [id |-> 2, tenantId |-> "t2", ownerId |-> 2]}
    /\ nextId = MaxCount + 1
    /\ req = [r \in ReqIds |-> IdleReq]
    /\ InitRest
    /\ issued = SignedFor({u \in users : u.tenantId # "t2"},
                          {o \in owners : o.tenantId # "t2"})
    /\ env = ProductionEnv

\* the super admin and the staff and the owner of t1 have logged in before;
\* those of t2 may
NextAccess ==
    \/ StaffLoginServerFind
    \/ PortalLoginServerFind
    \/ StaffLoginRoutesFind
    \/ LoginSign
    \/ PortalLoginRoutes
    \/ \E r \in ReqIds :
        \/ GetPatientServer(r)
        \/ PatchOwnerPortal(r)
        \/ PortalPets(r)
        \/ GetPatientRoutes(r)
        \/ PortalDashboardRoutes(r)
        \/ PostPatientsRoutes(r)
        \/ PostExpensesRoutes(r)
        \/ PostExpensesServer(r)
        \/ PostInventoryServer(r)
        \/ PostInventoryRoutes(r)

SpecAccess == InitAccess /\ [][NextAccess]_vars

----------------------------------------------------------------------------
(* Vocabulary of the properties: a finished call and the rows it met *)

\* request r has run checkLimits to its return or throw
Called(r) == req[r].op = "checkLimits" /\ req[r].pc \in {"returned", "threw"}

\* the tenant record the call fetched
Seen(r) == CHOOSE t \in req[r].tenant : TRUE

Restricted(t) == t.status \in {"Restricted", "Suspended"}

\* the call found its tenant, and the tenant is neither Restricted nor Suspended
Open(r) == Called(r) /\ req[r].tenant # {} /\ ~Restricted(Seen(r))

HasPlan(r) == \E p \in plans : p.id = Seen(r).plan
LimitsOf(r) == (CHOOSE p \in plans : p.id = Seen(r).plan).limits

Threw(r, error) == req[r].result.kind = "throw" /\ req[r].result.error = error
Succeeded(r) == req[r].result.kind = "return" /\ req[r].result.tenant = Seen(r)

----------------------------------------------------------------------------
(* Properties of checkLimits, checked under SpecCheck *)

\* C1: a call for an existing tenant whose status is Restricted or Suspended
\* throws AccountRestricted, whatever the resource type, the increment and the
\* plan (present or missing), and it throws before the plan is looked up.
C1_StatusGate ==
    \A r \in ReqIds :
        (Called(r) /\ req[r].tenant # {} /\ Restricted(Seen(r)))
            => (Threw(r, "AccountRestricted") /\ ~req[r].planRead)

C1_Witness ==
    /\ Called("r1") /\ req["r1"].tenant # {}
    /\ Seen("r1").status = "Restricted"
    /\ Seen("r1").plan = "Enterprise"
    /\ req["r1"].resourceType = "clients"
    /\ req["r1"].incrementAmount = 0
    /\ Threw("r1", "AccountRestricted")

\* C2: for an open tenant on a plan with maxUsers = M, M # -1, and c users, a
\* 'users' call with increment n throws QuotaExceeded exactly when c + n > M and
\* otherwise returns the tenant.
C2_UserQuota ==
    \A r \in ReqIds :
        (Open(r) /\ req[r].resourceType = "users" /\ HasPlan(r)
                 /\ LimitsOf(r).maxUsers # -1)
            => IF Seen(r).count.users + req[r].incrementAmount > LimitsOf(r).maxUsers
               THEN Threw(r, "QuotaExceeded")
               ELSE Succeeded(r)

C2_Witness ==
    /\ Open("r1") /\ req["r1"].resourceType = "users" /\ HasPlan("r1")
    /\ LimitsOf("r1").maxUsers = 2
    /\ Seen("r1").count.users = 2
    /\ req["r1"].incrementAmount = 1
    /\ Threw("r1", "QuotaExceeded")

\* C3: for an open tenant on a plan with maxStorageGB = G, a 'storage' call with
\* increment n throws QuotaExceeded exactly when storageUsed + n > G * 1024 and
\* otherwise returns the tenant, for every G including G = 0.
C3_StorageQuota ==
    \A r \in ReqIds :
        (Open(r) /\ req[r].resourceType = "storage" /\ HasPlan(r))
            => LET g == LimitsOf(r).maxStorageGB IN
               IF (Seen(r).storageUsed + req[r].incrementAmount) * g.den > g.num * 1024
               THEN Threw(r, "QuotaExceeded")
               ELSE Succeeded(r)

\* C4: for an open tenant on a plan with maxClients = M and c owners, a 'clients'
\* call returns the tenant when M = -1, and when M # -1 throws QuotaExceeded
\* exactly when c + n > M; c counts the tenant's owners, not its pets or users.
C4_ClientQuota ==
    \A r \in ReqIds :
        (Open(r) /\ req[r].resourceType = "clients" /\ HasPlan(r))
            => IF /\ LimitsOf(r).maxClients # -1
                  /\ countOf(owners, req[r].tenantId) + req[r].incrementAmount
                        > LimitsOf(r).maxClients
               THEN Threw(r, "QuotaExceeded")
               ELSE Succeeded(r)

C4_Witness ==
    /\ Open("r1") /\ req["r1"].resourceType = "clients" /\ HasPlan("r1")
    /\ LimitsOf("r1").maxClients = 2
    /\ countOf(owners, "t1") = 1
    /\ countOf(users, "t1") = 3
    /\ countOf(pets, "t1") = 0
    /\ req["r1"].incrementAmount = 2
    /\ Threw("r1", "QuotaExceeded")

\* C5: for an open tenant on a plan with maxUsers = -1, a 'users' call returns
\* the tenant for every increment and every user count.
C5_UnlimitedUsers ==
    \A r \in ReqIds :
        (Open(r) /\ req[r].resourceType = "users" /\ HasPlan(r)
                 /\ LimitsOf(r).maxUsers = -1)
            => Succeeded(r)

C5_Witness ==
    /\ Open("r1") /\ req["r1"].resourceType = "users"
    /\ Seen("r1").plan = "Premium" /\ HasPlan("r1")
    /\ Seen("r1").count.users = MaxCount
    /\ req["r1"].incrementAmount = MaxIncrement
    /\ Succeeded("r1")

\* C6: for an open tenant whose plan id matches no Plan row, the call returns
\* the tenant for every resource type and increment, whatever the usage.
C6_FailOpen ==
    \A r \in ReqIds : (Open(r) /\ ~HasPlan(r)) => Succeeded(r)

C6_Witness ==
    /\ Open("r1") /\ ~HasPlan("r1")
    /\ req["r1"].tenantId = "t1"
    /\ req["r1"].resourceType = "storage"
    /\ Seen("r1").storageUsed = 2047
    /\ req["r1"].incrementAmount = MaxIncrement
    /\ Succeeded("r1")

\* C7: a call whose tenantId matches no tenant row throws NotFound, for every
\* resource type and increment, and returns nothing.
C7_NotFound ==
    \A r \in ReqIds :
        (Called(r) /\ ~(\E t \in tenants : t.id = req[r].tenantId))
            => (Threw(r, "NotFound") /\ req[r].pc = "threw")

C7_Witness ==
    /\ Called("r1") /\ req["r1"].tenantId = "nobody"
    /\ req["r1"].resourceType = "users"
    /\ Threw("r1", "NotFound")

\* C8: no step of checkLimits changes a table (tenant rows, plan rows, users,
\* owners, pets), whether the call returns or throws; on return the value is the
\* tenant row with its counts as the database holds it.
C8_NoSideEffects ==
    /\ [][\A r \in ReqIds :
            (req'[r] # req[r] /\ req'[r].op = "checkLimits"
                /\ req'[r].pc \in {"plan", "returned", "threw"})
                => db' = db]_vars
    /\ [](\A r \in ReqIds :
            (Called(r) /\ req[r].pc = "returned")
                => req[r].result.tenant \in findTenantWithCounts(req[r].tenantId))

C8_Witness ==
    /\ Called("r1") /\ req["r1"].pc = "returned"
    /\ req["r1"].tenantId = "t1"
    /\ req["r1"].resourceType = "storage"
    /\ req["r1"].incrementAmount = 1
    /\ Seen("r1").storageUsed = 2047

----------------------------------------------------------------------------
(* Properties of the handlers and of concurrent requests, checked under Spec *)

\* C9: a request that has created a user or an owner has, before that, had
\* checkLimits return for the same tenant and resource type.
C9_CheckBeforeCreate ==
    \A r \in ReqIds :
        req[r].created \in {"users", "clients"}
            => /\ req[r].result.kind = "return"
               /\ req[r].result.tenant.id = req[r].tenantId
               /\ req[r].resourceType = req[r].created

\* what a tenant holds of a resource, in the unit checkLimits compares
Usage(resourceType, tenantId) ==
    IF resourceType = "users" THEN countOf(users, tenantId)
    ELSE IF resourceType = "clients" THEN countOf(owners, tenantId)
    ELSE (CHOOSE t \in tenants : t.id = tenantId).storageUsed

\* the plan's limit in the unit of the usage: maxUsers, maxClients, or the
\* megabytes of maxStorageGB
PlanLimit(resourceType, limits) ==
    IF resourceType = "users" THEN limits.maxUsers
    ELSE IF resourceType = "clients" THEN limits.maxClients
    ELSE (limits.maxStorageGB.num * 1024) \div limits.maxStorageGB.den

\* r and s are the two requests of the race: both checked the same tenant,
\* resource type and increment against a plan with a limit, both checks
\* returned, and both have committed their units
RacedPair(r, s) ==
    /\ r # s
    /\ req[r].op = "checkLimits" /\ req[r].pc = "committed"
    /\ req[s].op = "checkLimits" /\ req[s].pc = "committed"
    /\ req[r].tenantId = req[s].tenantId
    /\ req[r].resourceType = req[s].resourceType
    /\ req[r].incrementAmount = req[s].incrementAmount
    /\ HasPlan(r)
    /\ req[r].resourceType \in {"users", "clients"}
          => PlanLimit(req[r].resourceType, LimitsOf(r)) # -1

Overshoot(r) ==
    Usage(req[r].resourceType, req[r].tenantId) - PlanLimit(req[r].resourceType, LimitsOf(r))

\* C10 as stated: after two concurrent requests that each check and then commit
\* incrementAmount >= 1 units, the usage exceeds the plan limit by at most
\* incrementAmount - 1.
C10_OvershootBelowIncrement ==
    \A r, s \in ReqIds :
        (RacedPair(r, s) /\ req[r].incrementAmount >= 1)
            => Overshoot(r) <= req[r].incrementAmount - 1

\* C10 amended: after two concurrent requests that each check and then commit
\* incrementAmount units, the usage exceeds the plan limit by at most
\* incrementAmount; for storage, on a plan whose maxStorageGB is not 0 (with 0
\* checkLimits compares with 1 GB, which C3 reports).
C10_OvershootAtMostIncrement ==
    \A r, s \in ReqIds :
        (/\ RacedPair(r, s)
         /\ req[r].resourceType = "storage" => LimitsOf(r).maxStorageGB.num # 0)
            => Overshoot(r) <= req[r].incrementAmount

\* two uploads of 2 MB each on Starter (2048 MB) at 2046 MB: both checks
\* passed on 2046, both were tracked, 2050 MB
C10_Witness ==
    /\ RacedPair("r1", "r2")
    /\ req["r1"].tenantId = "t1"
    /\ req["r1"].resourceType = "storage"
    /\ req["r1"].incrementAmount = 2
    /\ Seen("r1").storageUsed = 2046 /\ Seen("r2").storageUsed = 2046
    /\ Seen("r1").plan = "Starter"
    /\ Overshoot("r1") = 2


\* the usage the request's own check read, in the unit checkLimits compares
SeenUsage(r) ==
    IF req[r].resourceType = "users" THEN Seen(r).count.users
    ELSE IF req[r].resourceType = "clients" THEN Seen(r).count.owners
    ELSE Seen(r).storageUsed

\* the limit on what request r created, of the plan of r's tenant; none when
\* the tenant or its plan is not found or the limit is -1
LimitOn(r) ==
    {PlanLimit(req[r].created, p.limits) :
        p \in UNION {findPlan(t.plan) : t \in findTenant(req[r].tenantId)}} \ {-1}

\* C11: the check and the write are separate steps of a request, and through
\* their race a count comes to be above the limit: every request that has
\* created users (or owners) of a tenant whose count is now strictly above its
\* plan's limit had first read the count and passed checkLimits on it.
C11_CheckThenActRace ==
    \A r \in ReqIds :
        (/\ req[r].created \in {"users", "clients"}
         /\ \E limit \in LimitOn(r) : Usage(req[r].created, req[r].tenantId) > limit)
            => /\ req[r].op = "checkLimits"
               /\ req[r].resourceType = req[r].created
               /\ \A limit \in LimitOn(r) :
                      SeenUsage(r) + req[r].incrementAmount <= limit

----------------------------------------------------------------------------
(* Properties of trackStorage, checked under SpecTrack *)

\* C12: whatever the interleaving of the trackStorage calls, every tenant's
\* storageUsed is its initial value plus the sum of the mbUsed (of either sign)
\* of the calls whose update went through: no update is lost.
C12_NoLostUpdate ==
    \A t \in tenants :
        \E t0 \in tenants0 :
            /\ t0.id = t.id
            /\ t.storageUsed = t0.storageUsed + ledger.sum[t.id]

\* three calls on the clinic went through, the last two of them one adding 2
\* and one reclaiming 1, and the counter has moved by a net amount
C12_Witness ==
    /\ ledger.calls = 3
    /\ \A r \in ReqIds : /\ req[r].op = "trackStorage" /\ req[r].pc = "resolved"
                          /\ req[r].tenantId = "t1" /\ ~req[r].dbFailed
    /\ req["r1"].mbUsed = 2 /\ req["r2"].mbUsed = -1
    /\ ledger.sum["t1"] = 3
    /\ \E t \in tenants : t.id = "t1" /\ t.storageUsed = 514

\* C13: trackStorage never raises to its caller: every call that has settled
\* has resolved, and a step in which the update fails (unknown tenantId
\* included) resolves the call and leaves every tenant's storageUsed as it was.
C13_NeverRaises ==
    /\ [](\A r \in ReqIds : req[r].op = "trackStorage"
              => /\ req[r].pc \in {"update", "resolved"}
                 /\ req[r].pc = "resolved"
                       => req[r].result = [kind |-> "return", value |-> "undefined"])
    /\ [][\A r \in ReqIds :
            (req[r].pc = "update" /\ req'[r].pc # "update" /\ req'[r].dbFailed)
                => /\ req'[r].pc = "resolved"
                   /\ tenants' = tenants]_vars

\* a call for an id no tenant has: resolved, the failure on the console
C13_Witness ==
    /\ req["r1"].op = "trackStorage" /\ req["r1"].pc = "resolved"
    /\ req["r1"].tenantId = "nobody" /\ req["r1"].mbUsed = 2
    /\ req["r1"].dbFailed
    /\ [by |-> "r1", message |-> "Failed to track storage usage"] \in console
    /\ tenants = tenants0

----------------------------------------------------------------------------
(* Properties of the audit log, checked under SpecLog *)

Handlers == {"POST /patients", "POST /sales/checkout"}

\* the record the handler of r has committed
CreatedBy(r) ==
    IF req[r].op = "POST /patients"
    THEN {p \in pets : p.id = req[r].entity}
    ELSE {x \in sales : x.id = req[r].entity}

LogFailures == {"Log failed:", "[LOG ERROR] Failed to log"}

\* C14: createLog never fails its caller. A call of the helper has returned
\* normally; a handler answers 500 only when its own write failed and answers
\* 200 with the record it committed otherwise; a failed log write is on the
\* console, and the step in which it fails changes no pet, sale or stock.
C14_LogNeverFailsCaller ==
    /\ [](\A r \in ReqIds :
            /\ req[r].op = "createLog"
                  => /\ req[r].pc = "returned"
                     /\ req[r].result = [kind |-> "return", value |-> "undefined"]
            /\ (req[r].op \in Handlers /\ req[r].pc = "replied500")
                  => req[r].entity = 0 /\ req[r].dbFailed
            /\ (req[r].op \in Handlers /\ req[r].pc = "replied200")
                  => /\ CreatedBy(r) # {}
                     /\ req[r].result = Reply(200, CreatedBy(r)))
    /\ [][\A r \in ReqIds :
            (PendingOf(r) # {} /\ PendingOf(r) \cap (pending' \cup logs') = {})
                => /\ \E l \in console' \ console :
                         l.by = r /\ l.message \in LogFailures
                   /\ UNCHANGED <<pets, sales, inventory, tenants, users, owners>>
                   /\ req'[r].op = "createLog" => req'[r] = req[r]
                   /\ req'[r].op \in Handlers => req'[r].pc = "replied200"]_vars

\* the log write of a patient creation failed and the pet was returned; the log
\* write of a helper call failed after the call had returned
C14_Witness ==
    /\ req["r1"].op = "POST /patients" /\ req["r1"].pc = "replied200"
    /\ req["r1"].result = Reply(200, CreatedBy("r1"))
    /\ [by |-> "r1", message |-> "Log failed:"] \in console
    /\ req["r2"].op = "createLog" /\ req["r2"].pc = "returned"
    /\ [by |-> "r2", message |-> "[LOG ERROR] Failed to log"] \in console
    /\ logs = {} /\ pending = {}

\* C15: createLog is fire-and-forget: while a log write is in flight, the
\* createLog that issued it has returned and no handler is held back by it.
C15_FireAndForget ==
    \A w \in pending : req[w.by].pc # "awaitLog"

\* C16: every log entry of a patient creation or a sale checkout, written or
\* in flight, describes a pet or a sale that is committed for the same tenant,
\* and a handler whose write or transaction failed has issued no log entry.
C16_LogAfterCommit ==
    /\ \A l \in logs \cup pending :
          /\ l.action = "Created Patient"
                => \E p \in pets : p.id = l.about /\ p.tenantId = l.tenantId
          /\ l.action = "New Sale"
                => \E x \in sales : x.id = l.about /\ x.tenantId = l.tenantId
    /\ \A r \in ReqIds :
          (req[r].op \in Handlers /\ req[r].dbFailed)
              => \A l \in logs \cup pending : l.by # r

\* a logged patient creation next to a checkout that was rolled back
C16_Witness ==
    /\ req["r1"].op = "POST /patients" /\ req["r1"].pc = "replied200"
    /\ \E l \in logs : /\ l.by = "r1" /\ l.action = "Created Patient"
                        /\ l.about = req["r1"].entity
    /\ req["r2"].op = "POST /sales/checkout" /\ req["r2"].pc = "replied500"
    /\ req["r2"].dbFailed
    /\ sales = {} /\ inventory = InitialInventory
    /\ \A l \in logs \cup pending : l.by # "r2"

----------------------------------------------------------------------------
(* Properties of verifyPayment, checked under SpecPay *)

\* verifyPayment has been called by r
Paying(r) == req[r].op = "verifyPayment"

\* the reference starts with mock- or is TRIAL
MockOrTrial(transactionId) ==
    /\ transactionId.type = "string"
    /\ \/ /\ Len(transactionId.chars) >= 5
          /\ \A i \in 1..5 : transactionId.chars[i] = Mock[i]
       \/ transactionId.chars = Trial

\* the gateway's answer confirms the payment
Confirms(response) ==
    /\ response.kind = "response" /\ response.ok /\ response.parses
    /\ response.json.type = "object"
    /\ Has(response.json.fields, "status")
    /\ response.json.fields.status = "success"
    /\ Has(response.json.fields, "data")
    /\ response.json.fields.data.type = "object"
    /\ Has(response.json.fields.data.fields, "status")
    /\ response.json.fields.data.fields.status = "successful"

\* C17: outside production a call with a reference that starts with mock- or
\* is TRIAL has returned true and has made no gateway call, with or without
\* the credential.
C17_MockBypass ==
    \A r \in ReqIds :
        (/\ Paying(r)
         /\ env.NODE_ENV # "production"
         /\ MockOrTrial(req[r].transactionId))
            => /\ req[r].pc = "returned"
               /\ req[r].result = Verified(TRUE)
               /\ req[r].gatewayCalls = 0

\* NODE_ENV is not set, no credential, reference mock-1
C17_Witness ==
    /\ env = [NODE_ENV |-> "unset", FLUTTERWAVE_SECRET_KEY |-> "unset"]
    /\ Paying("r1") /\ req["r1"].pc = "returned"
    /\ req["r1"].transactionId = Str(Mock \o <<"1">>)
    /\ req["r1"].result = Verified(TRUE)
    /\ req["r1"].gatewayCalls = 0

\* C18: in production a reference that starts with mock- or is TRIAL is
\* treated as any other: without the credential the call returns false, with
\* it the gateway is called, and the call returns true only when the gateway
\* has confirmed the payment.
C18_NoBypassInProduction ==
    \A r \in ReqIds :
        (/\ Paying(r)
         /\ env.NODE_ENV = "production"
         /\ MockOrTrial(req[r].transactionId))
            => /\ Truthy(env.FLUTTERWAVE_SECRET_KEY)
                     => req[r].gatewayCalls = 1
               /\ ~Truthy(env.FLUTTERWAVE_SECRET_KEY)
                     => /\ req[r].result = Verified(FALSE)
                        /\ req[r].gatewayCalls = 0
               /\ req[r].result = Verified(TRUE)
                     => /\ req[r].gatewayCalls = 1
                        /\ Confirms(req[r].response)

\* production, reference TRIAL, and the gateway rejects it
C18_Witness ==
    /\ env = [NODE_ENV |-> "production", FLUTTERWAVE_SECRET_KEY |-> "FLWSECK-1"]
    /\ Paying("r1") /\ req["r1"].pc = "returned"
    /\ req["r1"].transactionId = Str(Trial)
    /\ req["r1"].gatewayCalls = 1
    /\ req["r1"].response.kind = "response" /\ ~req["r1"].response.ok
    /\ req["r1"].result = Verified(FALSE)

\* the call of r took the bypass
Bypassed(r) == env.NODE_ENV # "production" /\ MockOrTrial(req[r].transactionId)

\* C19: a call that does not take the bypass, made without the credential, has
\* returned false and has made no gateway call.
C19_MissingCredential ==
    \A r \in ReqIds :
        (/\ Paying(r)
         /\ ~Bypassed(r)
         /\ ~Truthy(env.FLUTTERWAVE_SECRET_KEY))
            => /\ req[r].pc = "returned"
               /\ req[r].result = Verified(FALSE)
               /\ req[r].gatewayCalls = 0

\* development, the credential is empty, reference FLW1
C19_Witness ==
    /\ env = [NODE_ENV |-> "development", FLUTTERWAVE_SECRET_KEY |-> ""]
    /\ Paying("r1") /\ req["r1"].pc = "returned"
    /\ req["r1"].transactionId = Str(<<"F", "L", "W", "1">>)
    /\ req["r1"].result = Verified(FALSE)
    /\ req["r1"].gatewayCalls = 0
    /\ [by |-> "r1", message |-> "Missing FLUTTERWAVE_SECRET_KEY"] \in console

\* C20: a call that reached the gateway and has returned, has returned true
\* when the response is OK with envelope status success and transaction status
\* successful, and false on every other outcome.
C20_GatewayVerdict ==
    \A r \in ReqIds :
        (Paying(r) /\ req[r].gatewayCalls = 1 /\ req[r].pc # "fetching")
            => /\ req[r].pc = "returned"
               /\ req[r].result = Verified(Confirms(req[r].response))

\* an OK response with envelope status success and no data field
C20_Witness ==
    /\ Paying("r1") /\ req["r1"].pc = "returned"
    /\ req["r1"].gatewayCalls = 1
    /\ req["r1"].response =
          [kind |-> "response", ok |-> TRUE, parses |-> TRUE,
           json |-> Obj([status |-> "success"])]
    /\ req["r1"].result = Verified(FALSE)
    /\ [by |-> "r1", message |-> "Payment verification failed"] \in console


\* C21: verifyPayment never throws: a call that is not waiting for the gateway
\* has returned, and what it returned is a boolean, on the bypass, without the
\* credential, and after every answer or failure of the gateway.
C21_NeverThrows ==
    \A r \in ReqIds :
        (Paying(r) /\ req[r].pc # "fetching")
            => /\ req[r].pc = "returned"
               /\ req[r].result.kind = "return"
               /\ req[r].result.verified \in BOOLEAN

\* outside production a call without a reference: startsWith of undefined
\* throws, the catch returns false
C21_Witness ==
    /\ env.NODE_ENV = "development"
    /\ Paying("r1") /\ req["r1"].pc = "returned"
    /\ req["r1"].transactionId = Undefined
    /\ req["r1"].gatewayCalls = 0
    /\ req["r1"].result = Verified(FALSE)
    /\ [by |-> "r1", message |-> "Payment verification failed"] \in console


----------------------------------------------------------------------------
(* Properties of signup and of startup seeding, checked under SpecSignup *)

\* request r is a signup that was answered with success
Signed(r) == req[r].op = "POST /auth/signup" /\ req[r].pc = "replied200"

\* the tenant rows that signups have created
NewTenants == tenants \ tenants0

\* C22: a signup that has created an Active tenant on a plan other than Trial
\* has had verifyPayment return true for the payment reference of its body.
C22_PaidPlanAfterPayment ==
    \A r \in ReqIds :
        (/\ Signed(r)
         /\ \E t \in NewTenants :
               t.id = req[r].tenantId /\ t.status = "Active" /\ t.plan # "Trial")
            => req[r].paymentVerified

\* C23: every tenant's plan field is the id of a Plan row.
C23_PlanExists ==
    \A t \in tenants : findPlan(t.plan) # {}


\* C29: signup creates the tenant and its Admin user together. Every tenant a
\* signup created has exactly one user, the one of a successful signup with
\* that tenant id; there are as many such tenants as successful signups, so a
\* signup that failed or was rejected has left no tenant row; and no two user
\* rows have the same e-mail address.
C29_SignupAtomic ==
    /\ \A t \in NewTenants :
          /\ Cardinality({u \in users : u.tenantId = t.id}) = 1
          /\ \E r \in ReqIds :
                /\ Signed(r) /\ req[r].tenantId = t.id
                /\ [email |-> req[r].user, tenantId |-> t.id] \in users
    /\ Cardinality(NewTenants) = Cardinality({r \in ReqIds : Signed(r)})
    /\ \A u, v \in users : u.email = v.email => u = v

\* two signups with the same address both passed the lookup; one committed,
\* the other was rolled back on the taken address
C29_Witness ==
    /\ Signed("r1")
    /\ req["r2"].op = "POST /auth/signup" /\ req["r2"].pc = "replied500"
    /\ req["r1"].user = req["r2"].user
    /\ req["r1"].tenantId # req["r2"].tenantId
    /\ Cardinality(NewTenants) = 1
    /\ findTenant(req["r2"].tenantId) = {}


----------------------------------------------------------------------------
(* Properties of plan seeding, checked under SpecSeed *)

\* the rows of the catalog's plans, and the other rows
CatalogRows(table) == {p \in table : p.id \in CatalogIds}
OtherRows(table) == {p \in table : p.id \notin CatalogIds}

\* C25: after the seeding loop has run to its end, once or more often, the
\* Plan table has for each catalog id exactly the catalog's row; once it has
\* run to its end, running it again changes nothing; and no step of it
\* changes a row whose id is outside the catalog.
C25_SeedingIdempotent ==
    /\ [](req["r1"].runs >= 1
            => /\ CatalogRows(plans) = SeededPlans
               /\ \A id \in CatalogIds : Cardinality({p \in plans : p.id = id}) = 1)
    /\ [][/\ req["r1"].runs >= 1 => plans' = plans
          /\ OtherRows(plans') = OtherRows(plans)]_vars

\* the second start has seeded, next to a plan outside the catalog
C25_Witness ==
    /\ req["r1"].op = "start" /\ req["r1"].pc = "listening"
    /\ req["r1"].runs = 2
    /\ CatalogRows(plans) = SeededPlans
    /\ OtherRows(plans) = {[id |-> "Custom", limits |-> EditedLimits]}


----------------------------------------------------------------------------
(* Sequential quota safety, checked under Spec *)

\* no checkLimits call is between its two queries
Quiet == \A r \in ReqIds : req[r].pc # "plan"

----------------------------------------------------------------------------
(* Sale checkout, checked under SpecLog *)

\* the id an item of a sale names: id for server.ts, itemId for routes.ts
ItemKey(sale, item) ==
    IF Has(sale, "handler")
    THEN IF Has(item, "itemId") THEN item.itemId ELSE 0
    ELSE IF Has(item, "id") THEN item.id ELSE 0

\* the quantity of inventory item id in the items of a sale
RECURSIVE SoldOf(_, _, _)
SoldOf(sale, elems, id) ==
    IF elems = <<>> THEN 0
    ELSE (IF ItemKey(sale, Head(elems)) = id /\ id # 0
          THEN quantityOf(Head(elems)) ELSE 0)
         + SoldOf(sale, Tail(elems), id)

\* the quantity of inventory item i in the persisted sales of its own tenant
RECURSIVE SoldIn(_, _)
SoldIn(S, i) ==
    IF S = {} THEN 0
    ELSE LET s == CHOOSE x \in S : TRUE
         IN (IF s.tenantId = i.tenantId /\ s.items.array
             THEN SoldOf(s, s.items.elems, i.id) ELSE 0)
            + SoldIn(S \ {s}, i)

Checkouts == {"POST /sales/checkout", "POST /sales/checkout (routes.ts)"}

\* the inventory rows as they entered the table: the initial ones, and those
\* that the requests of POST /inventory created and were answered with
Stocked ==
    InitialInventory \cup
        UNION {req[r].result.body :
                  r \in {x \in ReqIds :
                            /\ req[x].op \in {"POST /inventory", "POST /inventory (routes.ts)"}
                            /\ req[x].pc = "replied200"}}

\* C28: checkout is all-or-nothing. The stock of every inventory item is the
\* stock it entered the table with less the quantities of it in the persisted sales of its own
\* tenant: every persisted sale has all its decrements, no stock is decremented
\* without its sale, and sales of another tenant do not touch it. The persisted
\* sales are those of the checkouts whose transaction committed.
C28_CheckoutAllOrNothing ==
    /\ \A i \in inventory :
          \E i0 \in Stocked :
              /\ i0.id = i.id /\ i0.tenantId = i.tenantId
              /\ i.stock = i0.stock - SoldIn(sales, i)
    /\ {s.id : s \in sales}
          = {req[r].entity : r \in {x \in ReqIds : /\ req[x].op \in Checkouts
                                                   /\ req[x].entity # 0}}
    /\ \A r \in ReqIds :
          (req[r].op \in Checkouts /\ req[r].dbFailed) => req[r].entity = 0

\* a sale of two items of the clinic, both decremented, next to a sale of
\* the system tenant that names an item of the clinic and leaves it alone
C28_Witness ==
    /\ req["r1"].op = "POST /sales/checkout" /\ req["r1"].tenantId = "t1"
    /\ req["r2"].op = "POST /sales/checkout (routes.ts)" /\ req["r2"].tenantId = "system"
    /\ \E s \in sales :
          /\ s.id = req["r1"].entity
          /\ s.items.elems = <<[id |-> 1, quantity |-> 1], [id |-> 2, quantity |-> 2]>>
    /\ \E s \in sales :
          /\ s.id = req["r2"].entity
          /\ s.items.elems = <<[itemId |-> 1, quantity |-> 2]>>
    /\ inventory = {[id |-> 1, tenantId |-> "t1", stock |-> 4],
                    [id |-> 2, tenantId |-> "t1", stock |-> 3],
                    [id |-> 3, tenantId |-> "system", stock |-> 5]}


----------------------------------------------------------------------------
(* Tenant isolation and authentication, checked under SpecAccess *)

Creates ==
    {"POST /patients (routes.ts)", "POST /expenses (routes.ts)", "POST /expenses",
     "POST /inventory", "POST /inventory (routes.ts)"}
StaffOps ==
    {"GET /patients/:id", "PATCH /owners/:id/portal", "GET /patients/:id (routes.ts)"}
        \cup Creates
PortalOps == {"GET /portal/pets", "GET /portal/dashboard (routes.ts)"}

\* the handler of r has run: the hook let the request through
Ran(r) == req[r].pc \in {"replied200", "replied500"}

\* C24: every record that a handler has returned or updated for a request
\* belongs to the tenant of the request's token.
C24_TenantIsolation ==
    \A r \in ReqIds :
        (req[r].op \in StaffOps \cup PortalOps /\ Ran(r))
            => \A x \in req[r].result.body : x.tenantId = req[r].tenantId

\* C27: the record a create handler has stored has the tenantId of the
\* request's token and not the id that the request body named.
C27_ServerAssignedFields ==
    \A r \in ReqIds :
        (/\ req[r].op \in Creates
         /\ req[r].pc = "replied200")
            => \A x \in req[r].result.body :
                  /\ x.tenantId = req[r].tenantId
                  /\ Has(req[r].body, "id") => x.id # req[r].body.id

\* C30: a staff handler has run only for a token of the staff login, and a
\* portal handler only for a token of the portal login.
C30_TokenSeparation ==
    \A r \in ReqIds :
        /\ (req[r].op \in StaffOps /\ Ran(r)) => req[r].token.issuedBy = "staff login"
        /\ (req[r].op \in PortalOps /\ Ran(r)) => req[r].token.issuedBy = "portal login"

============================================================================
